---- MODULE Spec2Model ----
(***************************************************************************)
(* Model of the Journal Transporter plugin for Janeway 1.4: the import     *)
(* pipeline of TransporterSerializer (is_valid and create with their       *)
(* callbacks), the entity serializers built on it, and the method dispatch *)
(* of TransporterViewSet.                                                  *)
(*                                                                         *)
(* Python values are tagged records, so that dict.get, truthiness and      *)
(* isinstance behave as they do in the code:                               *)
(*   None   [t |-> "none"]            str    [t |-> "str",  s |-> "..."]   *)
(*   str    [t |-> "chars", k |-> <<"a", ...>>] where characters matter    *)
(*   int    [t |-> "int",  n |-> 3]   bool   [t |-> "bool", b |-> TRUE]    *)
(*   dict   [t |-> "dict", d |-> f]   list   [t |-> "list", l |-> <<..>>]  *)
(*   datetime [t |-> "date", day |-> 1, minute |-> 0]                      *)
(* A dict is a function from keys (strings) to values.                     *)
(***************************************************************************)
EXTENDS Integers, Sequences, FiniteSets, TLC

VARIABLES
    db,        \* the host's tables this plugin writes: one sequence of rows per model, pk = index
    endpoints, \* the endpoints the migration client posts to in this run
    budget,    \* requests the client still sends
    req,       \* the request being handled: method, endpoint, initial_data, validated data
    pc,        \* position of the request in is_valid / create
    log,       \* stages run so far for the request being handled (or the last one)
    before,    \* the tables as they were when the request arrived
    resp,      \* the last response: status and the serialized body
    history,   \* the requests answered so far: payload and response of each
    host       \* what the host's own model code does, fixed for a run

vars == <<db, endpoints, budget, req, pc, log, before, resp, history, host>>

----------------------------------------------------------------------------
\* Bounds of the model

\* requests per run on the users / roles / revision_requests endpoints
MaxRequests == 3
\* requests per run on the review assignment endpoint
MaxReviewRequests == 1
\* largest primary key used when record keys are built and parsed on their own
MaxPk == 12
\* requests per run on the assignment endpoint of a round whose files are imported
MaxRoundRequests == 2
\* requests per run on the editor, author and file endpoints of an article
MaxPartRequests == 2
\* journals imported per run, through the endpoint or the command
MaxJournalRequests == 2
\* requests in a migration of the parts of an article whose stage is given
MaxStageRequests == 1

----------------------------------------------------------------------------
\* Python values

PyNone == [t |-> "none"]
PyStr(s) == [t |-> "str", s |-> s]
PyChars(k) == [t |-> "chars", k |-> k]
PyInt(n) == [t |-> "int", n |-> n]
PyBool(b) == [t |-> "bool", b |-> b]
PyDict(d) == [t |-> "dict", d |-> d]
PyList(l) == [t |-> "list", l |-> l]
PyDate(n) == [t |-> "date", day |-> n, minute |-> 0]

\* d + timedelta(days=k), d + timedelta(minutes=k) for the few minutes the code adds,
\* and d <= e
PlusDays(d, k) == [d EXCEPT !.day = @ + k]
PlusMinutes(d, k) == [d EXCEPT !.minute = @ + k]
DateLeq(d, e) == d.day < e.day \/ (d.day = e.day /\ d.minute <= e.minute)

EmptyDict == [x \in {} |-> PyNone]

\* bool(v): Python truthiness
Truthy(v) ==
    CASE v.t = "none" -> FALSE
      [] v.t = "str" -> v.s # ""
      [] v.t = "chars" -> v.k # <<>>
      [] v.t = "int" -> v.n # 0
      [] v.t = "bool" -> v.b
      [] v.t = "dict" -> DOMAIN v.d # {}
      [] v.t = "list" -> v.l # <<>>
      [] OTHER -> TRUE

\* isinstance(v, str)
IsStr(v) == v.t \in {"str", "chars"}

\* dict.get(key) / dict.get(key, default)
GetOr(d, key, default) == IF key \in DOMAIN d THEN d[key] ELSE default
Get(d, key) == GetOr(d, key, PyNone)

\* d[key] = value
Put(d, key, value) == [x \in DOMAIN d \cup {key} |-> IF x = key THEN value ELSE d[x]]

\* the dict left by d.pop(key, None)
Pop(d, key) == [x \in DOMAIN d \ {key} |-> d[x]]

\* a or b
Or(a, b) == IF Truthy(a) THEN a ELSE b

----------------------------------------------------------------------------
\* Strings whose characters matter: record keys and email addresses

DigitChar == <<"0", "1", "2", "3", "4", "5", "6", "7", "8", "9">>

\* str(n) for n >= 0
RECURSIVE Digits(_)
Digits(n) == IF n < 10 THEN <<DigitChar[n + 1]>> ELSE Digits(n \div 10) \o <<DigitChar[(n % 10) + 1]>>

DigitValue(c) == (CHOOSE i \in 1..10 : DigitChar[i] = c) - 1

\* int(k) for a string of decimal digits
RECURSIVE IntOf(_)
IntOf(k) == IF k = <<>> THEN 0 ELSE 10 * IntOf(SubSeq(k, 1, Len(k) - 1)) + DigitValue(k[Len(k)])

IsDecimal(k) == k # <<>> /\ \A i \in 1..Len(k) : \E d \in 1..10 : DigitChar[d] = k[i]

\* k.split(":")[-1]: what follows the last colon, or all of k when it has none
RECURSIVE LastSegment(_)
LastSegment(k) ==
    IF k = <<>> \/ k[Len(k)] = ":" THEN <<>>
    ELSE LastSegment(SubSeq(k, 1, Len(k) - 1)) \o <<k[Len(k)]>>

\* c.lower() on the characters the model's addresses use
LowerChar(c) == CASE c = "A" -> "a" [] c = "B" -> "b" [] c = "X" -> "x" [] OTHER -> c

\* k.lower()
Lower(k) == [i \in 1..Len(k) |-> LowerChar(k[i])]

\* Model.__name__ of the models the serializers map to
ClassName(model) ==
    CASE model = "Account" -> <<"A", "c", "c", "o", "u", "n", "t">>
      [] model = "AccountRole" -> <<"A", "c", "c", "o", "u", "n", "t", "R", "o", "l", "e">>
      [] model = "RevisionRequest" ->
            <<"R", "e", "v", "i", "s", "i", "o", "n", "R", "e", "q", "u", "e", "s", "t">>
      [] model = "ReviewAssignment" ->
            <<"R", "e", "v", "i", "e", "w", "A", "s", "s", "i", "g", "n", "m", "e", "n", "t">>
      [] model = "File" -> <<"F", "i", "l", "e">>
      [] model = "Article" -> <<"A", "r", "t", "i", "c", "l", "e">>
      [] model = "Journal" -> <<"J", "o", "u", "r", "n", "a", "l">>
      [] model = "EditorAssignment" ->
            <<"E", "d", "i", "t", "o", "r", "A", "s", "s", "i", "g", "n", "m", "e", "n", "t">>
      [] model = "FrozenAuthor" ->
            <<"F", "r", "o", "z", "e", "n", "A", "u", "t", "h", "o", "r">>
      [] model = "ReviewForm" -> <<"R", "e", "v", "i", "e", "w", "F", "o", "r", "m">>
      [] model = "ReviewRound" -> <<"R", "e", "v", "i", "e", "w", "R", "o", "u", "n", "d">>
      [] model = "ReviewFormElement" ->
            <<"R", "e", "v", "i", "e", "w", "F", "o", "r", "m", "E", "l", "e", "m", "e", "n", "t">>

\* A model instance as the serializers see it: its class and its pk, None until it is saved
Instance(model, pk) == [model |-> model, pk |-> pk]

\* get_source_record_key without its test of obj.pk: formats the pk whatever it is
get_source_record_key_unchecked(obj) ==
    PyChars(ClassName(obj.model) \o <<":">> \o
            (IF Truthy(obj.pk) THEN Digits(obj.pk.n) ELSE <<"N", "o", "n", "e">>))

\* TransporterSerializer.get_source_record_key
get_source_record_key(obj) ==
    IF Truthy(obj.pk)
    THEN PyChars(ClassName(obj.model) \o <<":">> \o Digits(obj.pk.n))
    ELSE PyNone

\* parse_target_record_key without the split: the whole key
parse_target_record_key_unsplit(value) ==
    IF Truthy(value) THEN PyChars(value.k) ELSE PyNone

\* TransporterSerializer.parse_target_record_key
parse_target_record_key(value) ==
    IF Truthy(value) THEN PyChars(LastSegment(value.k)) ELSE PyNone

\* TransporterSerializer.__process_foreign_key: None for anything that is not a dict
process_foreign_key(fk_dict) ==
    IF fk_dict.t = "dict"
    THEN parse_target_record_key(Get(fk_dict.d, "target_record_key"))
    ELSE PyNone

\* TransporterSerializer.__extract_foreign_key raises when the value found is truthy and
\* neither a list nor a dict (parsed_result is unbound), and when a target_record_key
\* is truthy and no string (it has no split)
extract_foreign_key_raises(data, lookup_key) ==
    LET found == Get(data, lookup_key)
        no_split(fk_dict) == /\ fk_dict.t = "dict"
                             /\ Truthy(Get(fk_dict.d, "target_record_key"))
                             /\ ~IsStr(fk_dict.d["target_record_key"])
    IN /\ Truthy(found)
       /\ \/ found.t \notin {"list", "dict"}
          \/ no_split(found)
          \/ found.t = "list" /\ \E i \in 1..Len(found.l) : no_split(found.l[i])

\* TransporterSerializer.__extract_foreign_key: data after the call
extract_foreign_key(data, lookup_key, foreign_key) ==
    LET found == Get(data, lookup_key)
        rest == Pop(data, lookup_key)
    IN IF ~Truthy(found) THEN rest
       ELSE IF found.t = "list"
            THEN Put(rest, foreign_key,
                     PyList([i \in 1..Len(found.l) |-> process_foreign_key(found.l[i])]))
            ELSE Put(rest, foreign_key, process_foreign_key(found))

----------------------------------------------------------------------------
\* The serializers and their Meta classes

\* Meta.model
MetaModel(ser) ==
    CASE ser = "UserSerializer" -> "Account"
      [] ser = "JournalRoleSerializer" -> "AccountRole"
      [] ser = "JournalArticleRevisionRequestSerializer" -> "RevisionRequest"
      [] ser = "JournalArticleRoundAssignmentSerializer" -> "ReviewAssignment"
      [] ser = "JournalArticleSerializer" -> "Article"
      [] ser = "JournalArticleEditorSerializer" -> "EditorAssignment"
      [] ser = "JournalArticleAuthorSerializer" -> "FrozenAuthor"
      [] ser = "JournalArticleFileSerializer" -> "File"
      [] ser = "JournalSerializer" -> "Journal"
      [] ser = "JournalReviewFormSerializer" -> "ReviewForm"
      [] ser = "JournalArticleRoundSerializer" -> "ReviewRound"
      [] ser = "JournalReviewFormElementSerializer" -> "ReviewFormElement"

\* Meta.foreign_keys, as (lookup key, foreign key) pairs in declaration order
foreign_keys(ser) ==
    CASE ser = "JournalRoleSerializer" -> << <<"user", "user_id">> >>
      [] ser = "JournalArticleRevisionRequestSerializer" -> << <<"editor", "editor_id">> >>
      [] ser = "JournalArticleRoundAssignmentSerializer" ->
            << <<"reviewer", "reviewer_id">>, <<"editor", "editor_id">>,
               <<"review_files", "round_review_file_ids">>,
               <<"reviewer_file", "reviewer_file_id">>,
               <<"supp_files", "supplementary_file_ids">>,
               <<"review_form", "review_form_id">> >>
      [] ser = "JournalArticleSerializer" ->
            << <<"creator", "owner_id">>, <<"sections", "section_id">> >>
      [] ser = "JournalArticleEditorSerializer" -> << <<"editor", "editor_id">> >>
      [] ser = "JournalArticleAuthorSerializer" -> << <<"user", "user_id">> >>
      [] OTHER -> <<>>

\* Meta.defaults, as (key, default) pairs
defaults(ser) ==
    CASE ser = "UserSerializer" -> << <<"affiliation", PyStr("None")>> >>
      [] ser = "JournalArticleSerializer" -> << <<"title", PyStr("Untitled Article")>> >>
      [] ser = "JournalArticleAuthorSerializer" -> << <<"department", PyStr("None")>> >>
      [] OTHER -> <<>>

\* Meta.html_fields: no serializer overrides the empty list of the base class
html_fields(ser) == {}

\* Meta.setting_values
setting_values(ser) ==
    IF ser = "JournalSerializer" THEN {"name", "issn", "print_issn"} ELSE {}

\* JournalRoleSerializer.Meta.role_map.get(name)
role_map_get(name) ==
    IF name.t # "str" THEN PyNone
    ELSE CASE name.s = "author" -> PyStr("Author")
           [] name.s = "copyeditor" -> PyStr("Copyeditor")
           [] name.s = "editor" -> PyStr("Editor")
           [] name.s = "production_manager" -> PyStr("Production Manager")
           [] name.s = "proofing_manager" -> PyStr("Proofing Manager")
           [] name.s = "proofreader" -> PyStr("Proofreader")
           [] name.s = "reviewer" -> PyStr("Reviewer")
           [] name.s = "section_editor" -> PyStr("Section Editor")
           [] name.s = "typesetter" -> PyStr("Typesetter")
           [] name.s = "reader" -> PyNone
           [] OTHER -> PyNone

\* name in role_map
in_role_map(name) ==
    name.t = "str" /\ name.s \in {"author", "copyeditor", "editor", "production_manager",
                                  "proofing_manager", "proofreader", "reviewer",
                                  "section_editor", "typesetter", "reader"}

\* JournalArticleRevisionRequestSerializer.Meta.type_map.get(name)
type_map_get(name) ==
    IF name.t # "str" THEN PyNone
    ELSE CASE name.s = "major_revisions" -> PyStr("major_revisions")
           [] name.s = "minor_revisions" -> PyStr("minor_revisions")
           [] name.s = "revisions" -> PyStr("minor_revisions")
           [] name.s = "revise" -> PyStr("minor_revisions")
           [] OTHER -> PyNone

\* name in type_map
in_type_map(name) ==
    name.t = "str" /\ name.s \in {"accepted", "accept", "reject", "rejected", "declined",
                                  "decline", "resubmit", "major_revisions",
                                  "minor_revisions", "revisions", "revise"}

\* JournalArticleRoundAssignmentSerializer.Meta.decision_map.get(name)
decision_map_get(name) ==
    CASE name = "accept" -> PyStr("accept")
      [] name = "pending_revisions" -> PyStr("minor_revisions")
      [] name = "resubmit_here" -> PyStr("major_revisions")
      [] name = "see_comments" -> PyStr("major_revisions")
      [] name = "resubmit_elsewhere" -> PyStr("reject")
      [] name = "decline" -> PyStr("reject")
      [] name = "cancelled" -> PyStr("withdrawn")
      [] OTHER -> PyNone

\* s.replace(" ", "_").lower() on the decisions the model's payloads carry
normalize_decision(s) ==
    CASE s = "Accept" -> "accept"
      [] s = "See Comments" -> "see_comments"
      [] OTHER -> s

\* role_name.lower().replace(" ", "-") on the names of role_map
role_slug(role_name) ==
    CASE role_name = "Author" -> "author"
      [] role_name = "Copyeditor" -> "copyeditor"
      [] role_name = "Editor" -> "editor"
      [] role_name = "Production Manager" -> "production-manager"
      [] role_name = "Proofing Manager" -> "proofing-manager"
      [] role_name = "Proofreader" -> "proofreader"
      [] role_name = "Reviewer" -> "reviewer"
      [] role_name = "Section Editor" -> "section-editor"
      [] role_name = "Typesetter" -> "typesetter"
      [] OTHER -> role_name

\* BeautifulSoup(v, 'html.parser').get_text(separator="\n") on the texts the payloads carry
get_text(s) ==
    CASE s = "<b>accept</b>" -> "accept"
      [] OTHER -> s

\* The datetimes the payloads carry, as day numbers counted from 2022-12-31
parse_datetime(s) ==
    CASE s = "1899-12-31T00:00:00+0000" -> -44925
      [] s = "2023-01-01T00:00:00+0000" -> 1
      [] s = "2023-01-15T00:00:00+0000" -> 15
      [] s = "2023-02-02T00:00:00+0000" -> 33
      [] OTHER -> 0

----------------------------------------------------------------------------
\* Field declarations and REST framework's structural validation of them

\* A declared field: its payload name, the attribute it maps to (source), its type,
\* and the required / allow_null / allow_blank / default arguments
Field(name, source, kind, required, allow_null, allow_blank, default) ==
    [name |-> name, source |-> source, kind |-> kind, required |-> required,
     allow_null |-> allow_null, allow_blank |-> allow_blank, default |-> default]

\* no default= argument
NoDefault == [t |-> "empty"]

\* Field(..., **OPT_STR_FIELD) and Field(..., **OPT_FIELD)
OptStr(name, source, kind, default) == Field(name, source, kind, FALSE, TRUE, TRUE, default)
Opt(name, source, kind) == Field(name, source, kind, FALSE, TRUE, FALSE, NoDefault)

\* The writable fields each serializer declares
fields(ser) ==
    CASE ser = "UserSerializer" ->
            << Field("email", "email", "email", TRUE, FALSE, FALSE, NoDefault),
               OptStr("first_name", "first_name", "char", NoDefault),
               OptStr("last_name", "last_name", "char", NoDefault),
               OptStr("affiliation", "institution", "char", PyStr("None")),
               Opt("country_code", "country", "slug") >>
      [] ser = "JournalRoleSerializer" ->
            << Field("user_id", "user_id", "int", TRUE, FALSE, FALSE, NoDefault),
               Opt("role_id", "role_id", "int") >>
      [] ser = "JournalArticleRevisionRequestSerializer" ->
            << Field("decision", "type", "char", TRUE, FALSE, FALSE, NoDefault),
               OptStr("comment", "editor_note", "char", PyStr("None")),
               OptStr("author_comment", "author_note", "char", NoDefault),
               Opt("date", "date_requested", "datetime"),
               Opt("date_due", "date_due", "datetime"),
               Opt("date_response", "date_completed", "datetime"),
               Field("editor_id", "editor_id", "int", TRUE, FALSE, FALSE, NoDefault) >>
      [] ser = "JournalArticleRoundAssignmentSerializer" ->
            << OptStr("recommendation", "decision", "char", NoDefault),
               OptStr("comments", "comments_for_editor", "char", NoDefault),
               Opt("date_assigned", "date_requested", "datetime"),
               Field("date_due", "date_due", "datetime", TRUE, FALSE, FALSE, NoDefault),
               Opt("date_confirmed", "date_accepted", "datetime"),
               Opt("date_declined", "date_declined", "datetime"),
               Opt("date_completed", "date_complete", "datetime"),
               Opt("date_reminded", "date_reminded", "datetime"),
               Opt("reviewer_id", "reviewer_id", "int"),
               Opt("editor_id", "editor_id", "int"),
               Opt("reviewer_file_id", "review_file_id", "int"),
               Opt("review_form_id", "form_id", "int") >>
      [] ser = "JournalArticleSerializer" ->
            << OptStr("title", "title", "char", NoDefault),
               OptStr("abstract", "abstract", "char", NoDefault),
               OptStr("cover_letter", "comments_editor", "char", NoDefault),
               OptStr("language", "language", "char", NoDefault),
               Opt("date_started", "date_started", "datetime"),
               Opt("date_submitted", "date_submitted", "datetime"),
               Opt("date_accepted", "date_accepted", "datetime"),
               Opt("date_declined", "date_declined", "datetime"),
               Opt("date_published", "date_published", "datetime"),
               Opt("date_updated", "date_updated", "datetime"),
               OptStr("status", "stage", "char", PyStr("draft")),
               Opt("owner_id", "owner_id", "int"),
               Opt("section_id", "section_id", "int") >>
      [] ser = "JournalArticleEditorSerializer" ->
            << Opt("notified", "notified", "bool"),
               Opt("date_notified", "assigned", "datetime"),
               OptStr("editor_type", "editor_type", "char", PyStr("editor")),
               Field("editor_id", "editor_id", "int", TRUE, FALSE, FALSE, NoDefault) >>
      [] ser = "JournalArticleAuthorSerializer" ->
            << OptStr("email", "frozen_email", "email", NoDefault),
               OptStr("first_name", "first_name", "char", NoDefault),
               OptStr("last_name", "last_name", "char", NoDefault),
               OptStr("middle_name", "middle_name", "char", NoDefault),
               Opt("sequence", "order", "int"),
               OptStr("affiliation", "institution", "char", PyStr("None")),
               OptStr("department", "department", "char", NoDefault),
               OptStr("salutation", "name_prefix", "char", NoDefault),
               Opt("country_code", "country", "slug"),
               Opt("user_id", "author_id", "int") >>
      [] ser = "JournalSerializer" ->
            << Field("path", "code", "char", TRUE, FALSE, FALSE, NoDefault),
               Field("title", "name", "char", TRUE, FALSE, FALSE, NoDefault),
               OptStr("description", "description", "char", NoDefault),
               OptStr("online_issn", "issn", "char", NoDefault),
               OptStr("print_issn", "print_issn", "char", NoDefault) >>
      [] ser = "JournalArticleFileSerializer" ->
            \* is_supplementary_file is declared read_only: it is no writable field
            << Field("file", "file", "file", TRUE, FALSE, FALSE, NoDefault),
               Opt("date_uploaded", "date_uploaded", "datetime"),
               OptStr("description", "description", "char", NoDefault),
               OptStr("label", "label", "char", NoDefault),
               OptStr("original_filename", "original_filename", "char", NoDefault),
               Field("is_galley_file", "is_galley", "bool", FALSE, FALSE, FALSE,
                     PyBool(FALSE)) >>
      [] ser = "JournalArticleRoundSerializer" ->
            << Field("round", "round_number", "int", TRUE, FALSE, FALSE, NoDefault),
               Opt("date", "date_started", "datetime") >>
      [] ser = "JournalReviewFormSerializer" ->
            << Field("title", "name", "char", TRUE, FALSE, FALSE, NoDefault),
               OptStr("slug", "slug", "char", NoDefault),
               OptStr("description", "intro", "char", NoDefault),
               OptStr("thanks", "thanks", "char", NoDefault),
               Field("deleted", "deleted", "bool", FALSE, FALSE, FALSE, PyBool(FALSE)) >>
      [] ser = "JournalReviewFormElementSerializer" ->
            << Field("question", "name", "char", TRUE, FALSE, FALSE, NoDefault),
               OptStr("help_text", "help_text", "char", NoDefault),
               Field("type", "kind", "char", TRUE, FALSE, FALSE, NoDefault),
               Opt("responses", "choices", "list"),
               Field("required", "required", "bool", FALSE, TRUE, FALSE, PyBool(FALSE)),
               Field("sequence", "order", "int", FALSE, TRUE, FALSE, PyInt(0)),
               Field("width", "width", "char", FALSE, TRUE, TRUE, PyStr("large-12 columns")),
               Field("visible_to_author", "default_visibility", "bool", FALSE, TRUE, FALSE,
                     PyBool(TRUE)) >>

\* to_internal_value succeeds on a non-null value
converts(f, v) ==
    CASE f.kind = "char" -> IsStr(v) /\ (Truthy(v) \/ f.allow_blank)
      [] f.kind = "email" -> /\ v.t = "chars"
                             /\ \/ v.k = <<>> /\ f.allow_blank
                                \/ \E i \in 2..(Len(v.k) - 1) : v.k[i] = "@"
      [] f.kind = "bool" -> v.t = "bool"
      [] f.kind = "file" -> v.t = "str" /\ Truthy(v)
      \* ListField(child=CharField())
      [] f.kind = "list" -> v.t = "list" /\ \A i \in 1..Len(v.l) : IsStr(v.l[i]) /\ Truthy(v.l[i])
      [] f.kind = "int" -> v.t = "int" \/ (v.t = "chars" /\ IsDecimal(v.k))
      \* a string is a datetime when it parses
      [] f.kind = "datetime" -> v.t = "date" \/ (v.t = "str" /\ parse_datetime(v.s) # 0)
      [] OTHER -> FALSE

\* to_internal_value of a value that converts
to_internal_value(f, v) ==
    CASE f.kind = "int" /\ v.t = "chars" -> PyInt(IntOf(v.k))
      [] f.kind = "datetime" /\ v.t = "str" -> PyDate(parse_datetime(v.s))
      [] OTHER -> v

\* The field rejects what the payload holds for it
field_error(f, data) ==
    IF f.name \notin DOMAIN data THEN f.required /\ f.default = NoDefault
    ELSE IF data[f.name] = PyNone THEN ~f.allow_null
    ELSE ~converts(f, data[f.name])

field_value(f, data) ==
    IF f.name \notin DOMAIN data THEN f.default
    ELSE IF data[f.name] = PyNone THEN PyNone
    ELSE to_internal_value(f, data[f.name])

\* serializer.errors: the names of the fields that failed
errors(ser, data) ==
    {fields(ser)[i].name : i \in {j \in 1..Len(fields(ser)) : field_error(fields(ser)[j], data)}}

\* serializer.validated_data: source attribute -> internal value, of the fields that
\* the payload names or that declare a default
validated_data(ser, data) ==
    LET fs == fields(ser)
        set == {i \in 1..Len(fs) : fs[i].name \in DOMAIN data \/ fs[i].default # NoDefault}
    IN [a \in {fs[i].source : i \in set} |->
            field_value(fs[CHOOSE i \in set : fs[i].source = a], data)]

----------------------------------------------------------------------------
\* The host's tables. db[model] is the sequence of the model's rows, a row's pk is its
\* index, and a row is the dict of the attributes it was created with.

Tables ==
    {"Account", "Role", "AccountRole", "RevisionRequest", "ReviewAssignment",
     "File", "ReviewerRating", "ReviewRound_review_files", "Section", "Article",
     "EditorAssignment", "FrozenAuthor", "ArticleAuthorOrder", "Article_authors",
     "FileHistory", "Galley", "Article_supplementary_files", "Article_manuscript_files",
     "Journal", "IssueType", "Field", "ReviewForm", "ReviewFormElement", "ReviewRound",
     "WorkflowElement", "WorkflowLog"}

\* the pks of the rows of a table that satisfy a lookup
Matching(table, lookup) ==
    {i \in 1..Len(table) : \A a \in DOMAIN lookup : Get(table[i], a) = lookup[a]}

\* Model.objects.create(**row)
Insert(tables, model, row) == [tables EXCEPT ![model] = Append(@, row)]

\* Account.save() of the host: a host that keeps addresses in lower case stores them so
account_row(h, row) ==
    IF h.lowercase_email /\ "email" \in DOMAIN row /\ row["email"].t = "chars"
    THEN Put(row, "email", PyChars(Lower(row["email"].k)))
    ELSE row

----------------------------------------------------------------------------
\* TransporterSerializer.is_valid: the stages before the structural validation

\* TransporterSerializer.extract_foreign_keys over the first n declared keys
RECURSIVE extract_first(_, _, _)
extract_first(ser, data, n) ==
    IF n = 0 THEN data
    ELSE extract_foreign_key(extract_first(ser, data, n - 1),
                             foreign_keys(ser)[n][1], foreign_keys(ser)[n][2])

extract_foreign_keys(ser, data) == extract_first(ser, data, Len(foreign_keys(ser)))

extract_foreign_keys_raises(ser, data) ==
    \E n \in 1..Len(foreign_keys(ser)) : extract_foreign_key_raises(data, foreign_keys(ser)[n][1])

\* COUNTRY_CHOICES of the host, matched on code or name regardless of case
country_matches(v) ==
    IF v.t = "str" /\ v.s \in {"US", "us", "United States", "united states"}
    THEN <<PyStr("US")>>
    ELSE <<>>

\* JournalRoleSerializer.__find_role: the role found or created, and the tables afterwards
find_role(tables, imported_role_name) ==
    LET role_name == role_map_get(imported_role_name)
        found == {i \in 1..Len(tables["Role"]) :
                      \/ Get(tables["Role"][i], "name") = role_name
                      \/ Get(tables["Role"][i], "slug") = role_name}
    IN IF ~Truthy(role_name) THEN [role |-> PyNone, tables |-> tables]
       ELSE IF found # {}
            THEN [role |-> PyInt(CHOOSE i \in found : \A j \in found : i <= j), tables |-> tables]
            ELSE [role |-> PyInt(Len(tables["Role"]) + 1),
                  tables |-> Insert(tables, "Role",
                                    [a \in {"name", "slug"} |->
                                        IF a = "name" THEN role_name
                                        ELSE PyStr(role_slug(role_name.s))])]

\* before_validation with the assignment date preferred to the completion date
before_validation_assigned_first(ser, data, tables) ==
    IF ser = "JournalArticleRoundAssignmentSerializer"
    THEN Put(IF ~Truthy(Get(data, "date_due"))
             THEN Put(data, "date_due",
                      Or(Get(data, "date_assigned"), Get(data, "date_completed")))
             ELSE data,
             "comments", PyNone)
    ELSE data

\* before_validation of each serializer: the payload afterwards
before_validation(ser, data, tables) ==
    CASE ser \in {"UserSerializer", "JournalArticleAuthorSerializer"} ->
            IF Truthy(Get(data, "country_code"))
            THEN LET matches == country_matches(data["country_code"])
                 IN Put(data, "country_code", IF Len(matches) # 0 THEN matches[1] ELSE PyNone)
            ELSE Put(data, "country_code", PyNone)
      [] ser = "JournalRoleSerializer" ->
            LET role == find_role(tables, Get(data, "role")).role
            IN IF Truthy(role) THEN Put(data, "role_id", role) ELSE data
      [] ser = "JournalArticleRoundAssignmentSerializer" ->
            LET due == IF ~Truthy(Get(data, "date_due"))
                       THEN Put(data, "date_due",
                                Or(Get(data, "date_completed"), Get(data, "date_assigned")))
                       ELSE data
                comment == Get(due, "comments")
            IN Put(due, "comments",
                   IF comment.t = "list" /\ Len(comment.l) > 0
                   THEN comment.l[1].d["comments"]
                   ELSE PyNone)
      [] ser = "JournalArticleSerializer" ->
            IF Get(data, "section_id").t = "list"
            THEN Put(data, "section_id", data["section_id"].l[1])
            ELSE data
      [] ser = "JournalReviewFormSerializer" ->
            IF Truthy(Get(data, "active")) /\ ~Truthy(Get(data, "deleted"))
            THEN Put(data, "deleted", PyBool(~Truthy(Get(data, "active"))))
            ELSE data
      [] OTHER -> data

\* before_validation of each serializer: the tables afterwards
before_validation_tables(ser, data, tables) ==
    IF ser = "JournalRoleSerializer"
    THEN find_role(tables, Get(data, "role")).tables
    ELSE tables

\* TransporterSerializer.strip_html_content
strip_html_content(ser, data) ==
    [k \in DOMAIN data |->
        IF k \in html_fields(ser) \/ ~IsStr(data[k]) THEN data[k]
        ELSE IF data[k].t = "str" THEN PyStr(get_text(data[k].s))
        ELSE data[k]]

\* TransporterSerializer.apply_default_value
apply_default_value(data, field, default) ==
    IF ~(Truthy(Get(data, field)) \/ Get(data, field) = PyBool(FALSE))
    THEN Put(data, field, default)
    ELSE data

\* TransporterSerializer.apply_defaults over the first n declared defaults
RECURSIVE apply_first(_, _, _)
apply_first(ser, data, n) ==
    IF n = 0 THEN data
    ELSE apply_default_value(apply_first(ser, data, n - 1), defaults(ser)[n][1], defaults(ser)[n][2])

apply_defaults(ser, data) == apply_first(ser, data, Len(defaults(ser)))

----------------------------------------------------------------------------
\* TransporterSerializer.create and the callbacks it runs

\* The parent lookups of each nested route (urls.py), outermost first
parents_query_lookups(ser) ==
    CASE ser = "JournalRoleSerializer" -> <<"journal__id">>
      [] ser = "JournalArticleRevisionRequestSerializer" -> <<"journal__id", "article__id">>
      [] ser = "JournalArticleRoundAssignmentSerializer" ->
            <<"journal__id", "article__id", "review_round__id">>
      [] ser = "JournalArticleSerializer" -> <<"journal__id">>
      [] ser \in {"JournalArticleEditorSerializer", "JournalArticleAuthorSerializer",
                  "JournalArticleFileSerializer", "JournalArticleRoundSerializer"} ->
            <<"journal__id", "article__id">>
      [] ser = "JournalReviewFormSerializer" -> <<"journal__id">>
      [] ser = "JournalReviewFormElementSerializer" -> <<"journal__id", "review_form__id">>
      [] OTHER -> <<>>

\* The journal, article, review round and review form the nested routes name: they exist
\* in the host before the import, as in the test cases' setUp
fixture == [journal__id |-> PyInt(1), article__id |-> PyInt(1), review_round__id |-> PyInt(1),
            review_form__id |-> PyInt(1)]

\* key.rsplit("__", 1)[0] for the lookups above
fk_record_name(key) ==
    CASE key = "journal__id" -> "journal"
      [] key = "article__id" -> "article"
      [] key = "review_round__id" -> "review_round"
      [] key = "review_form__id" -> "review_form"

\* hasattr(Meta.model, fk_record_name): the relations of the host's models
has_relation(model, name) ==
    \/ model = "AccountRole" /\ name = "journal"
    \/ model = "RevisionRequest" /\ name = "article"
    \/ model = "ReviewAssignment" /\ name \in {"article", "review_round"}
    \/ model \in {"Article", "ReviewForm"} /\ name = "journal"
    \/ model \in {"EditorAssignment", "FrozenAuthor", "ReviewRound"} /\ name = "article"

\* TransporterSerializer.apply_parent_id over the first n parent lookups
RECURSIVE apply_parent_first(_, _, _)
apply_parent_first(ser, data, n) ==
    IF n = 0 THEN data
    ELSE LET key == parents_query_lookups(ser)[n]
             prev == apply_parent_first(ser, data, n - 1)
         IN IF has_relation(MetaModel(ser), fk_record_name(key))
            THEN Put(prev, fk_record_name(key) \o "_id", fixture[key])
            ELSE prev

apply_parent_id(ser, data) == apply_parent_first(ser, data, Len(parents_query_lookups(ser)))

\* max_length of ReviewFormElement.name in the host
name_max_length == 200

\* pre_process raises: a revision request without a date adds a timedelta to None, and
\* the overflow of a long question is added to a help_text that is None
pre_process_raises(ser, data) ==
    \/ /\ ser = "JournalArticleRevisionRequestSerializer"
       /\ Get(data, "date_requested").t # "date"
    \/ /\ ser = "JournalReviewFormElementSerializer"
       /\ Len(data["name"].k) > name_max_length
       /\ GetOr(data, "help_text", PyChars(<<>>)) = PyNone

\* timedelta(days=30)
RevisionDueDays == 30

\* JournalArticleSerializer.Meta.stage_map.get(name), with the host's stage constants
stage_map_get(name) ==
    IF name.t # "str" THEN PyNone
    ELSE CASE name.s = "draft" -> PyStr("Unsubmitted")
           [] name.s = "submitted" -> PyStr("Unassigned")
           [] name.s = "assigned" -> PyStr("Assigned")
           [] name.s = "review" -> PyStr("Under Review")
           [] name.s \in {"revision", "revise"} -> PyStr("Under Revision")
           [] name.s = "rejected" -> PyStr("Rejected")
           [] name.s = "accepted" -> PyStr("Accepted")
           [] name.s \in {"copyediting", "editor_copyediting"} -> PyStr("Editor Copyediting")
           [] name.s = "author_copyediting" -> PyStr("Author Copyediting")
           [] name.s = "typesetting" -> PyStr("Typesetting")
           [] name.s = "proofing" -> PyStr("Proofing")
           [] name.s = "published" -> PyStr("Published")
           [] OTHER -> PyNone

\* submission_models.REVIEW_STAGES and NEW_ARTICLE_STAGES of the host
REVIEW_STAGES == {"Assigned", "Under Review", "Under Revision"}
NEW_ARTICLE_STAGES == {"Unsubmitted", "Unassigned"}

\* JournalArticleSerializer.Meta.fields: the keys of field_map, in order
article_fields ==
    <<"source_record_key", "title", "abstract", "language", "date_started", "date_submitted",
      "date_accepted", "date_declined", "date_published", "date_updated", "status",
      "section_id", "owner_id", "cover_letter">>

\* JournalArticleSerializer.Meta.default_timestamp: datetime(1900, 1, 1)
default_timestamp == PyDate(-44924)

\* JournalArticleSerializer.date_after: from the field date_attr_name on, every turn of
\* the loop reads data.get(date_attr_name)
date_after(date_attr_name, data) ==
    IF \E i \in 1..Len(article_fields) :
          /\ article_fields[i] = date_attr_name
          /\ \E j \in i..Len(article_fields) : Truthy(Get(data, date_attr_name))
    THEN data[date_attr_name]
    ELSE default_timestamp

\* JournalArticleSerializer.derive_missing_dates
derive_missing_dates(data) ==
    LET possible_dates == {a \in {"date_submitted", "date_accepted", "date_declined",
                                  "date_updated"} : Truthy(Get(data, a))}
        started == IF ~Truthy(Get(data, "date_started"))
                   THEN Put(data, "date_started",
                            IF possible_dates # {} THEN date_after("date_started", data)
                            ELSE default_timestamp)
                   ELSE data
        submitted == IF ~Truthy(Get(started, "date_submitted"))
                        /\ started["stage"] # PyStr("Unsubmitted")
                     THEN Put(started, "date_submitted", PlusMinutes(started["date_started"], 1))
                     ELSE started
    IN IF /\ submitted["stage"] # PyStr("Rejected")
          /\ ~Truthy(Get(submitted, "date_accepted"))
          /\ submitted["stage"].s \notin REVIEW_STAGES
          /\ submitted["stage"].s \notin NEW_ARTICLE_STAGES
       THEN Put(submitted, "date_accepted", date_after("date_submitted", submitted))
       ELSE submitted

\* the stage derivation with the acceptance date looked at before the submission date
article_stage_accepted_first(data) ==
    LET mapped == stage_map_get(Get(data, "stage"))
    IN IF Truthy(mapped) THEN mapped
       ELSE IF Truthy(Get(data, "date_accepted")) THEN PyStr("Accepted")
       ELSE IF Truthy(Get(data, "date_submitted")) THEN PyStr("Unassigned")
       ELSE IF Truthy(Get(data, "date_declined")) THEN PyStr("Rejected")
       ELSE IF Truthy(Get(data, "date_published")) THEN PyStr("Published")
       ELSE PyStr("Unsubmitted")

\* JournalArticleSerializer.pre_process: the stage
article_stage(data) ==
    LET mapped == stage_map_get(Get(data, "stage"))
    IN IF Truthy(mapped) THEN mapped
       ELSE IF Truthy(Get(data, "date_submitted")) THEN PyStr("Unassigned")
       ELSE IF Truthy(Get(data, "date_declined")) THEN PyStr("Rejected")
       ELSE IF Truthy(Get(data, "date_accepted")) THEN PyStr("Accepted")
       ELSE IF Truthy(Get(data, "date_published")) THEN PyStr("Published")
       ELSE PyStr("Unsubmitted")

\* Section.objects.get_or_create(journal=self.journal, name="Articles")
default_section(tables) ==
    LET lookup == [journal_id |-> fixture["journal__id"], name |-> PyStr("Articles")]
        found == Matching(tables["Section"], lookup)
    IN IF found # {}
       THEN [pk |-> CHOOSE i \in found : \A j \in found : i <= j, tables |-> tables]
       ELSE [pk |-> Len(tables["Section"]) + 1, tables |-> Insert(tables, "Section", lookup)]

\* self.article, the record apply_parent_id found for the article of the route
article_of(tables) == tables["Article"][fixture["article__id"].n]

\* JournalArticleEditorSerializer.pre_process: the editor type of an assignment that
\* names none, from the roles of the editor
editor_type_of(data, tables) ==
    LET role == Matching(tables["Role"], [slug |-> PyStr("editor")])
        has_editor_role ==
            \E i \in 1..Len(tables["AccountRole"]) :
                /\ Get(tables["AccountRole"][i], "user_id") = Get(data, "editor_id")
                /\ Get(tables["AccountRole"][i], "role_id") \in {PyInt(r) : r \in role}
    IN IF role # {}
       THEN Put(data, "editor_type",
                IF has_editor_role THEN PyStr("editor") ELSE PyStr("section-editor"))
       ELSE data

\* pre_process without the cancellation rule: only the decision map
pre_process_map_only(ser, data, tables) ==
    IF /\ ser = "JournalArticleRoundAssignmentSerializer"
       /\ Truthy(Get(data, "decision"))
    THEN Put(data, "decision",
             Or(decision_map_get(normalize_decision(data["decision"].s)), data["decision"]))
    ELSE data

\* pre_process of each serializer: the data afterwards
pre_process(ser, data, tables) ==
    CASE ser = "JournalArticleRevisionRequestSerializer" ->
            apply_default_value(data, "date_due",
                                PlusDays(data["date_requested"], RevisionDueDays))
      [] ser = "JournalArticleSerializer" ->
            LET section == IF ~Truthy(Get(data, "section_id"))
                           THEN Put(data, "section_id", PyInt(default_section(tables).pk))
                           ELSE data
            IN derive_missing_dates(Put(section, "stage", article_stage(section)))
      [] ser = "JournalArticleRoundAssignmentSerializer" ->
            LET cancelled ==
                    IF Truthy(Get(data, "date_complete")) /\ ~Truthy(Get(data, "decision"))
                    THEN Put(data, "decision", PyStr("withdrawn"))
                    ELSE data
            IN IF Truthy(Get(cancelled, "decision"))
               THEN Put(cancelled, "decision",
                        Or(decision_map_get(normalize_decision(cancelled["decision"].s)),
                           cancelled["decision"]))
               ELSE cancelled
      [] ser = "JournalArticleEditorSerializer" ->
            LET notified == Put(data, "notified", PyBool(Truthy(Get(data, "assigned"))))
                assigned == Put(notified, "assigned",
                                Or(Or(Get(data, "assigned"),
                                      Get(article_of(tables), "date_submitted")),
                                   \* datetime.now(), the day of the import
                                   PyDate(400)))
            IN IF ~Truthy(Get(assigned, "editor_type"))
               THEN editor_type_of(assigned, tables)
               ELSE assigned
      [] ser = "JournalReviewFormSerializer" ->
            \* data["name"].lower().replace(" ", "-")
            IF ~Truthy(Get(data, "slug"))
            THEN Put(data, "slug",
                     PyChars([i \in 1..Len(data["name"].k) |->
                                 IF data["name"].k[i] = " " THEN "-"
                                 ELSE LowerChar(data["name"].k[i])]))
            ELSE data
      [] ser = "JournalReviewFormElementSerializer" ->
            LET \* Meta.type_mappings.get(data.get("kind")) or "text"
                kind == Put(data, "kind",
                            IF Get(data, "kind") \in {PyStr("textarea"), PyStr("check")}
                            THEN data["kind"]
                            ELSE IF Get(data, "kind") = PyStr("checkbox") THEN PyStr("check")
                            ELSE IF Get(data, "kind") = PyStr("radio_buttons") THEN PyStr("select")
                            ELSE PyStr("text"))
                RECURSIVE join(_)
                join(l) == IF Len(l) = 1 THEN l[1].k
                           ELSE join(SubSeq(l, 1, Len(l) - 1)) \o <<"|">> \o l[Len(l)].k
                choices == IF Truthy(Get(kind, "choices"))
                           THEN Put(kind, "choices", PyChars(join(kind["choices"].l)))
                           ELSE kind
                question == data["name"].k
                help_text == GetOr(data, "help_text", PyChars(<<>>))
                \* sentence_terminators.search(substr): the leftmost match
                terminator_matches == {i \in 1..name_max_length : question[i] \in {".", "?", "!"}}
                pruned_question_length ==
                    IF terminator_matches # {}
                    THEN CHOOSE i \in terminator_matches : \A j \in terminator_matches : i <= j
                    ELSE name_max_length
            IN IF Len(question) <= name_max_length THEN choices
               ELSE Put(Put(choices, "name", PyChars(SubSeq(question, 1, pruned_question_length))),
                        "help_text",
                        PyChars(SubSeq(question, pruned_question_length + 1, Len(question))
                                \o help_text.k))
      [] OTHER -> data

\* pre_process of each serializer: the tables afterwards
pre_process_tables(ser, data, tables) ==
    IF ser = "JournalArticleSerializer" /\ ~Truthy(Get(data, "section_id"))
    THEN default_section(tables).tables
    ELSE tables

\* TransporterSerializer.extract_setting_values: the values popped, and the data left
extract_setting_values(ser, data) ==
    [k \in DOMAIN data \cap setting_values(ser) |-> data[k]]

\* Meta.model.objects.get_or_create(**data) / Meta.model.objects.create(**data):
\* the pk of the instance
persist_pk(ser, data, upsert, tables) ==
    LET found == Matching(tables[MetaModel(ser)], data)
    IN IF upsert /\ found # {}
       THEN CHOOSE i \in found : \A j \in found : i <= j
       ELSE Len(tables[MetaModel(ser)]) + 1

\* objects.create raises IntegrityError: a host whose EditorAssignment is unique in
\* (article, editor) refuses a second row for the pair, and a host whose Journal is
\* unique in code and in domain refuses a second journal of the same code, or a second
\* one that is given no domain of its own
persist_raises(ser, data, upsert, tables, h) ==
    \/ /\ ser = "JournalArticleEditorSerializer"
       /\ h.unique_together
       /\ Matching(tables["EditorAssignment"],
                   [article_id |-> Get(data, "article_id"),
                    editor_id |-> Get(data, "editor_id")]) # {}
    \/ /\ ser = "JournalArticleRoundSerializer"
       /\ h.unique_together
       /\ Matching(tables["ReviewRound"],
                   [article_id |-> Get(data, "article_id"),
                    round_number |-> Get(data, "round_number")]) # {}
    \/ /\ ser = "JournalSerializer"
       /\ h.unique_together
       /\ \E i \in 1..Len(tables["Journal"]) :
              \/ Get(tables["Journal"][i], "code") = Get(data, "code")
              \/ "domain" \notin DOMAIN tables["Journal"][i]

\* ... and the tables afterwards
persist_tables(ser, data, upsert, tables, h) ==
    IF upsert /\ Matching(tables[MetaModel(ser)], data) # {}
    THEN tables
    ELSE Insert(tables, MetaModel(ser),
                IF MetaModel(ser) = "Account" THEN account_row(h, data) ELSE data)

\* the loop of create over the popped setting values: setattr for the truthy ones
apply_setting_values(row, settings) ==
    [k \in DOMAIN row \cup {x \in DOMAIN settings : Truthy(settings[x])} |->
        IF k \in DOMAIN settings /\ Truthy(settings[k]) THEN settings[k] ELSE row[k]]

\* Meta.attachments, as (key, attribute) pairs
attachments(ser) ==
    IF ser = "JournalSerializer"
    THEN << <<"header_file", "header_image">>, <<"cover_file", "default_cover_image">> >>
    ELSE <<>>

\* TransporterSerializer.handle_attachments raises: a file arrives without its metadata
\* and None has no get
handle_attachments_raises(ser, initial_data) ==
    \E n \in 1..Len(attachments(ser)) :
        /\ Truthy(Get(initial_data, attachments(ser)[n][1] \o "_file"))
        /\ Get(initial_data, attachments(ser)[n][1]).t # "dict"

\* TransporterSerializer.handle_attachments over the first n attachments: the row
\* of the instance afterwards
RECURSIVE attach_first(_, _, _, _)
attach_first(ser, initial_data, row, n) ==
    IF n = 0 THEN row
    ELSE LET prev == attach_first(ser, initial_data, row, n - 1)
             metadata == Get(initial_data, attachments(ser)[n][1])
             file == Get(initial_data, attachments(ser)[n][1] \o "_file")
         IN IF Truthy(file)
            THEN Put(prev, attachments(ser)[n][2],
                     Or(Get(metadata.d, "name"), Get(metadata.d, "upload_name")))
            ELSE prev

handle_attachments(ser, initial_data, row) ==
    attach_first(ser, initial_data, row, Len(attachments(ser)))

\* JournalSerializer.create_custom_fields
create_custom_fields(journal, tables) ==
    Insert(tables, "Field",
           [journal_id |-> journal, name |-> PyStr("Acknowledgements"),
            kind |-> PyStr("textarea"), required |-> PyBool(FALSE),
            display |-> PyBool(TRUE), order |-> PyInt(0),
            help_text |-> PyStr("Acknowledgements")])

\* JournalSerializer.post_process without the default issue type
journal_post_process_no_issue_type(journal, tables) ==
    create_custom_fields(journal,
        [tables EXCEPT !["Journal"][journal.n] = Put(@, "disable_article_images", PyBool(TRUE))])

\* JournalSerializer.post_process
journal_post_process(journal, tables) ==
    create_custom_fields(journal,
        Insert([tables EXCEPT !["Journal"][journal.n] =
                                  Put(@, "disable_article_images", PyBool(TRUE))],
               "IssueType",
               [journal_id |-> journal, code |-> PyStr("issue"),
                pretty_name |-> PyStr("Issue")]))

\* JournalHandler.import_single: the tables afterwards
import_single(data, tables) ==
    LET journal_path == data["path"]
        exists == Matching(tables["Journal"], [code |-> journal_path]) # {}
    IN IF ~exists
       THEN Insert(tables, "Journal",
                   [code |-> journal_path,
                    domain |-> PyStr("https://www.example.com/" \o journal_path.s),
                    name |-> data["title"]])
       ELSE tables

\* the pk a lookup value stands for: pk=2 and pk="2" find the same row
PkOf(v) == IF v.t = "int" THEN v.n ELSE IF IsDecimal(v.k) THEN IntOf(v.k) ELSE 0

\* the pks a list of lookup values names (pk__in=values)
PksIn(values) == {PkOf(values.l[i]) : i \in 1..Len(values.l)}

\* round.review_files.filter(pk__in=values): the pks of the files of the round among them
round_review_files(tables, round, values) ==
    {f \in PksIn(values) :
        Matching(tables["ReviewRound_review_files"],
                 [reviewround_id |-> round, file_id |-> PyInt(f)]) # {}}

\* round.review_files.add(file): a file already in the collection is not added again
review_files_add(tables, round, file) ==
    IF Matching(tables["ReviewRound_review_files"],
                [reviewround_id |-> round, file_id |-> PyInt(file)]) # {}
    THEN tables
    ELSE Insert(tables, "ReviewRound_review_files",
                [reviewround_id |-> round, file_id |-> PyInt(file)])

\* for file in files: round.review_files.add(file), in the order of the pks
RECURSIVE review_files_add_all(_, _, _)
review_files_add_all(tables, round, files) ==
    IF files = {} THEN tables
    ELSE LET first == CHOOSE f \in files : \A g \in files : f <= g
         IN review_files_add_all(review_files_add(tables, round, first), round,
                                 files \ {first})

\* JournalArticleRoundAssignmentSerializer.post_process: the rating
assignment_rating(instance, initial_data, tables) ==
    LET quality == Get(initial_data, "quality")
        editor == Get(tables["ReviewAssignment"][instance.pk.n], "editor_id")
    IN IF Truthy(quality) /\ Truthy(editor)
       THEN Insert(tables, "ReviewerRating",
                   [assignment_id |-> instance.pk, rater_id |-> editor,
                    rating |-> PyInt(quality.n * 10)])
       ELSE tables

\* JournalArticleRoundAssignmentSerializer.post_process: the review files of the round
assignment_review_files(instance, initial_data, tables) ==
    LET ids == Get(initial_data, "round_review_file_ids")
        round == Get(tables["ReviewAssignment"][instance.pk.n], "review_round_id")
    IN IF Truthy(ids) /\ round_review_files(tables, round, ids) = {}
       THEN review_files_add_all(tables, round, PksIn(ids) \cap (1..Len(tables["File"])))
       ELSE tables

\* JournalArticleRoundAssignmentSerializer.post_process: the supplementary files
assignment_supp_files(instance, initial_data, tables) ==
    LET ids == Get(initial_data, "supplementary_file_ids")
        round == Get(tables["ReviewAssignment"][instance.pk.n], "review_round_id")
        already_added_pks == {PyInt(f) : f \in round_review_files(tables, round, ids)}
        to_add == already_added_pks \ {ids.l[i] : i \in 1..Len(ids.l)}
    IN IF Truthy(ids)
       THEN review_files_add_all(tables, round, {v.n : v \in to_add})
       ELSE tables

\* post_process of an editor assignment whatever the stage of the article
editor_post_process_any_stage(tables) ==
    [tables EXCEPT !["Article"][fixture["article__id"].n] = Put(@, "stage", PyStr("Assigned"))]

\* JournalArticleEditorSerializer.post_process: STAGE_UNASSIGNED becomes STAGE_ASSIGNED,
\* and the article is saved
editor_post_process(tables) ==
    IF Get(article_of(tables), "stage") = PyStr("Unassigned")
    THEN [tables EXCEPT !["Article"][fixture["article__id"].n] =
                            Put(@, "stage", PyStr("Assigned"))]
    ELSE tables

\* post_process of each serializer: the tables afterwards
post_process(ser, instance, data, initial_data, tables) ==
    CASE ser = "JournalArticleRoundAssignmentSerializer" ->
            assignment_supp_files(instance, initial_data,
                assignment_review_files(instance, initial_data,
                    assignment_rating(instance, initial_data, tables)))
      [] ser = "JournalSerializer" -> journal_post_process(instance.pk, tables)
      [] ser = "JournalArticleEditorSerializer" -> editor_post_process(tables)
      [] ser = "JournalArticleRoundSerializer" ->
            \* review_round.article.stage is assigned and the article is not saved: its
            \* row stays as it is; the first round opens the review in the workflow log
            LET element == Matching(tables["WorkflowElement"],
                                    [journal_id |-> Get(article_of(tables), "journal_id"),
                                     element_name |-> PyStr("review")])
                existing == Matching(tables["WorkflowLog"],
                                     [article_id |-> fixture["article__id"],
                                      element_id |-> PyInt(CHOOSE e \in element : TRUE)])
            IN IF Get(data, "round_number") = PyInt(1) /\ existing = {}
               THEN Insert(tables, "WorkflowLog",
                           [article_id |-> fixture["article__id"],
                            element_id |-> PyInt(CHOOSE e \in element : TRUE),
                            timestamp |-> Or(Get(article_of(tables), "date_submitted"),
                                             Get(data, "date_started"))])
               ELSE tables
      [] OTHER -> tables

\* post_process raises: WorkflowElement.objects.get finds no review element for the
\* journal of the article of a first round
post_process_raises(ser, data, tables) ==
    /\ ser = "JournalArticleRoundSerializer"
    /\ Get(data, "round_number") = PyInt(1)
    /\ Matching(tables["WorkflowElement"],
                [journal_id |-> Get(article_of(tables), "journal_id"),
                 element_name |-> PyStr("review")]) = {}

\* create inside a transaction that the exception rolls back
create_raised_rolled_back(tables, before_create) == before_create

\* create ends with an exception: nothing wraps its writes in a transaction, and the
\* tables stay as the calls before the exception left them
create_raised(tables, before_create) == tables

\* JournalArticleRoundAssignmentSerializer.get_quality
get_quality(tables, pk) ==
    LET rating == Matching(tables["ReviewerRating"], [assignment_id |-> pk])
    IN IF rating # {}
       THEN PyInt(tables["ReviewerRating"][CHOOSE i \in rating : TRUE]["rating"].n * 10)
       ELSE PyNone

\* collection.add(record) of a many-to-many relation of the article: once per record
related_add(tables, relation, record) ==
    LET row == [article_id |-> fixture["article__id"], record_id |-> record]
    IN IF Matching(tables[relation], row) # {} THEN tables ELSE Insert(tables, relation, row)

\* ArticleAuthorOrder.objects.create raises IntegrityError: a host whose ArticleAuthorOrder
\* is unique in (article, author) refuses a second row for the pair
author_order_raises(data, tables, h) ==
    /\ Truthy(Get(data, "author_id"))
    /\ h.unique_together
    /\ Matching(tables["ArticleAuthorOrder"],
                [article_id |-> fixture["article__id"], author_id |-> data["author_id"]]) # {}

\* JournalArticleAuthorSerializer.post_process up to the order row: the author joins
\* article.authors
author_linked(data, tables) ==
    IF Truthy(Get(data, "author_id"))
    THEN related_add(tables, "Article_authors", data["author_id"])
    ELSE tables

\* JournalArticleAuthorSerializer.post_process
author_post_process(data, initial_data, tables) ==
    IF Truthy(Get(data, "author_id"))
    THEN LET linked == author_linked(data, tables)
             count == Cardinality(Matching(linked["Article_authors"],
                                           [article_id |-> fixture["article__id"]]))
             ordered == Insert(linked, "ArticleAuthorOrder",
                               [article_id |-> fixture["article__id"],
                                author_id |-> data["author_id"],
                                order |-> GetOr(initial_data, "sequence", PyInt(count + 1))])
         IN IF Truthy(Get(initial_data, "primary_contact"))
            THEN [ordered EXCEPT !["Article"][fixture["article__id"].n] =
                                     Put(@, "correspondence_author_id", data["author_id"])]
            ELSE ordered
    ELSE tables

\* [data.get(field) for field in label_fields if data.get(field)]
file_labels(data) ==
    LET label_fields == <<"label", "filename", "file_name", "original_filename">>
    IN SelectSeq([i \in 1..Len(label_fields) |-> Get(data, label_fields[i])], Truthy)

\* JournalArticleFileSerializer.create raises: File.objects.get finds no parent file, or
\* no label field is populated and the list of labels is indexed at 0
file_create_raises(data, initial_data, tables) ==
    LET parent == Get(initial_data, "parent_target_record_key")
    IN IF Truthy(parent)
       THEN PkOf(PyChars(LastSegment(parent.k))) \notin 1..Len(tables["File"])
       ELSE file_labels(data) = <<>>

\* the pk of the file that create returns: the parent overwritten, or the file saved
file_create_pk(initial_data, tables) ==
    LET parent == Get(initial_data, "parent_target_record_key")
    IN IF Truthy(parent) THEN PkOf(PyChars(LastSegment(parent.k)))
       ELSE Len(tables["File"]) + 1

\* files.overwrite_file keeps the parent's row and files its old content in the history;
\* files.save_file_to_article creates the row of a new file of the article
file_create(data, initial_data, tables) ==
    IF Truthy(Get(initial_data, "parent_target_record_key"))
    THEN Insert(tables, "FileHistory",
                [file_id |-> PyInt(file_create_pk(initial_data, tables))])
    ELSE Insert(tables, "File",
                [article_id |-> fixture["article__id"],
                 label |-> file_labels(data)[1],
                 description |-> Get(data, "description"),
                 is_galley |-> Or(Get(data, "is_galley"), PyBool(FALSE))])

\* JournalArticleFileSerializer.post_process
file_post_process(record, data, tables) ==
    LET galley == IF Truthy(Get(data, "is_galley"))
                  THEN Insert(tables, "Galley",
                              [article_id |-> fixture["article__id"], file_id |-> PyInt(record)])
                  ELSE tables
        collected ==
            IF Truthy(Get(data, "is_supplementary_file"))
            THEN related_add(galley, "Article_supplementary_files", PyInt(record))
            ELSE IF ~Truthy(Get(data, "parent_target_record_key"))
                 THEN related_add(galley, "Article_manuscript_files", PyInt(record))
                 ELSE galley
    IN IF Truthy(Get(data, "date_uploaded"))
       THEN [collected EXCEPT !["File"][record] = Put(@, "date_uploaded", data["date_uploaded"])]
       ELSE collected

----------------------------------------------------------------------------
\* Requests

NoRequest == [ser |-> "none", payload |-> EmptyDict]

\* A POST being handled: the serializer of the endpoint, request.data (initial_data),
\* the validated data once there is one, and what create has built so far
Post(ser, initial_data) ==
    [ser |-> ser, payload |-> initial_data, initial_data |-> initial_data,
     data |-> EmptyDict, errors |-> {},
     upsert |-> FALSE, settings |-> EmptyDict, instance |-> Instance(MetaModel(ser), PyNone)]

NoResponse == [method |-> "none", status |-> 0, instance |-> Instance("none", PyNone), source_record_key |-> PyNone,
               errors |-> {}]

\* Response(serializer.data, status=201)
Created(instance) ==
    [method |-> "post", status |-> 201, instance |-> instance,
     source_record_key |-> get_source_record_key(instance), errors |-> {}]

\* the ValidationError of is_valid(raise_exception=True)
BadRequest(errs) == [NoResponse EXCEPT !.method = "post", !.status = 400, !.errors = errs]

\* an exception nobody catches
ServerError == [NoResponse EXCEPT !.method = "post", !.status = 500]

\* a response without a body
Status(method, code) == [NoResponse EXCEPT !.method = method, !.status = code]

\* {"target_record_key": key}, the reference to a record created earlier
Ref(model, pk) ==
    PyDict([k \in {"target_record_key"} |-> get_source_record_key(Instance(model, PyInt(pk)))])

\* with or without one key
Optional(key, values) == {EmptyDict} \cup {(key :> v) : v \in values}

\* The payloads the migration client posts to each endpoint
Payloads(ser, tables) ==
    CASE ser = "UserSerializer" ->
            \* one address in two spellings, and a blank
            {("email" :> PyChars(e)) : e \in {<<"a", "@", "x">>, <<"A", "@", "x">>, <<>>}}
      [] ser = "JournalRoleSerializer" ->
            {("role" :> PyStr(r)) @@ u :
                r \in {"author", "reader", "janitor"},
                u \in Optional("user", {Ref("Account", i) : i \in 1..Len(tables["Account"])})}
      [] ser = "JournalArticleRevisionRequestSerializer" ->
            {("decision" :> PyStr(d)) @@ dt @@ e :
                d \in {"resubmit", "revise", "unheard_of"},
                dt \in Optional("date", {PyStr("2023-01-01T00:00:00+0000")}),
                e \in Optional("editor", {Ref("Account", i) : i \in 1..Len(tables["Account"])})}
      [] ser = "JournalArticleSerializer" ->
            {st @@ d0 @@ d1 @@ d2 @@ d3 @@ d4 @@ d5 :
                st \in Optional("status", {PyNone, PyStr(""), PyStr("draft"), PyStr("review"),
                                           PyStr("rejected"), PyStr("published"),
                                           PyStr("unheard_of")}),
                d0 \in Optional("date_started", {PyStr("2023-01-15T00:00:00+0000")}),
                d1 \in Optional("date_submitted", {PyStr("1899-12-31T00:00:00+0000"),
                                                   PyStr("2023-01-15T00:00:00+0000")}),
                d2 \in Optional("date_accepted", {PyStr("2023-01-15T00:00:00+0000"),
                                                  PyStr("2023-02-02T00:00:00+0000")}),
                d3 \in Optional("date_declined", {PyStr("2023-02-02T00:00:00+0000")}),
                d4 \in Optional("date_published", {PyStr("2023-02-02T00:00:00+0000")}),
                d5 \in Optional("date_updated", {PyStr("2023-01-01T00:00:00+0000"),
                                                 PyStr("2023-02-02T00:00:00+0000")})}
      [] ser = "JournalSerializer" ->
            {("path" :> PyStr(pt)) @@ ("title" :> PyStr("Test Journal")) @@ issn @@ hd :
                pt \in {"testj", "j2"},
                issn \in Optional("online_issn", {PyStr(""), PyStr("1234-5678")}),
                hd \in {EmptyDict,
                        ("header_file_file" :> PyStr("header.png")),
                        ("header_file_file" :> PyStr("header.png")) @@
                        ("header_file" :> PyDict(("upload_name" :> PyStr("h.png"))))}}
      [] ser = "JournalArticleEditorSerializer" ->
            {("editor" :> Ref("Account", 1)) @@ dn @@ et :
                dn \in Optional("date_notified", {PyStr("2023-02-02T00:00:00+0000")}),
                et \in Optional("editor_type", {PyStr("section-editor"), PyStr("")})}
      [] ser = "JournalArticleAuthorSerializer" ->
            \* the primary contact is a linked author
            {p \in {("first_name" :> PyStr("Author")) @@ u @@ sq @@ pr :
                        u \in Optional("user", {Ref("Account", 1)}),
                        sq \in Optional("sequence", {PyInt(2), PyInt(3)}),
                        pr \in Optional("primary_contact", {PyBool(TRUE)})} :
                "primary_contact" \in DOMAIN p => "user" \in DOMAIN p}
      [] ser = "JournalArticleFileSerializer" ->
            \* a new version of a file names its parent, a file imported before
            {p \in {("file" :> PyStr("test.pdf")) @@ nm @@ sp @@ gl @@ pa :
                        nm \in Optional("original_filename", {PyStr("well being.docx")}),
                        sp \in Optional("is_supplementary_file", {PyBool(TRUE), PyBool(FALSE)}),
                        gl \in Optional("is_galley_file", {PyBool(TRUE)}),
                        pa \in Optional("parent_target_record_key",
                                        {get_source_record_key(Instance("File", PyInt(1)))})} :
                "parent_target_record_key" \in DOMAIN p =>
                    /\ tables["File"] # <<>>
                    /\ DOMAIN p \cap {"is_supplementary_file", "is_galley_file"} = {}}
      [] ser = "JournalArticleRoundSerializer" ->
            {("round" :> PyInt(n)) @@ dt :
                n \in {1, 2}, dt \in Optional("date", {PyStr("2023-02-02T00:00:00+0000")})}
      [] ser = "JournalReviewFormSerializer" ->
            {("title" :> PyChars(<<"A", " ", "B">>)) @@ sl @@ ac @@ de :
                sl \in Optional("slug", {PyChars(<<"f">>)}),
                ac \in Optional("active", {PyBool(TRUE), PyBool(FALSE)}),
                de \in Optional("deleted", {PyBool(TRUE), PyBool(FALSE)})}
      [] ser = "JournalReviewFormElementSerializer" ->
            \* questions up to and beyond the length of a name, with and without
            \* sentence terminators
            {("question" :> PyChars([i \in 1..n |-> IF i \in at THEN "?" ELSE "a"]))
             @@ ("type" :> PyStr(ty)) @@ ht @@ rs :
                n \in {3, name_max_length, name_max_length + 3},
                at \in {{}, {2}, {2, name_max_length - 50},
                        {name_max_length - 50, name_max_length + 1}},
                ty \in {"checkbox", "unheard_of"},
                ht \in Optional("help_text", {PyChars(<<"h">>), PyNone}),
                rs \in Optional("responses", {PyList(<<PyChars(<<"y">>), PyChars(<<"n">>)>>)})}
      [] ser = "JournalArticleRoundAssignmentSerializer" /\ tables["File"] # <<>> ->
            \* a round whose files are imported: the assignments name the editor, the
            \* files and the quality of the review
            {("date_due" :> PyStr("2023-01-01T00:00:00+0000")) @@ q @@ e @@ rf @@ sf :
                q \in Optional("quality", {PyInt(0), PyInt(80)}),
                e \in Optional("editor", {Ref("Account", 1)}),
                rf \in Optional("review_files", {PyList(<<Ref("File", 1)>>),
                                                 PyList(<<Ref("File", 1), Ref("File", 2)>>)}),
                sf \in Optional("supp_files", {PyList(<<Ref("File", 2)>>)})
                      \cup {("supplementary_file_ids" :> PyList(<<PyInt(2)>>))}}
      [] ser = "JournalArticleRoundAssignmentSerializer" ->
            {due @@ done @@ asg @@ rec :
                due \in Optional("date_due", {PyStr(""), PyStr("2023-01-01T00:00:00+0000")}),
                done \in Optional("date_completed", {PyNone, PyStr("2023-01-15T00:00:00+0000")}),
                asg \in Optional("date_assigned", {PyStr("2023-02-02T00:00:00+0000")}),
                rec \in Optional("recommendation",
                                 {PyNone, PyStr(""), PyStr("Accept"), PyStr("freeform")})}

\* http_method_names with DELETE let through
http_method_names_with_delete == {"get", "post", "delete"}

\* is_valid with the defaults applied after the validation
is_valid_stages_defaults_last ==
    <<"extract_foreign_keys", "before_validation", "strip_html_content", "run_validation",
      "apply_defaults">>

\* create with post_process ahead of the persist
create_stages_post_process_early ==
    <<"apply_parent_id", "pre_process", "extract_setting_values", "post_process", "persist",
      "apply_setting_values", "handle_attachments">>

\* TransporterViewSet.http_method_names
http_method_names == {"get", "post"}

\* The calls of TransporterSerializer.is_valid, in the order of its body
is_valid_stages ==
    <<"extract_foreign_keys", "before_validation", "strip_html_content", "apply_defaults",
      "run_validation">>

\* The calls of TransporterSerializer.create, in the order of its body
create_stages ==
    <<"apply_parent_id", "pre_process", "extract_setting_values", "persist",
      "apply_setting_values", "handle_attachments", "post_process">>

\* the stage that follows `stage` in a method body, or `end` after the last one
After(stages, stage, end) ==
    LET i == CHOOSE j \in 1..Len(stages) : stages[j] = stage
    IN IF i = Len(stages) THEN end ELSE stages[i + 1]

\* the handler that APIView.dispatch picks for a request method on a route: the router
\* binds get/post of a collection to list/create and get/delete of a record to
\* retrieve/destroy; an unbound method that the class defines is the class's own
dispatch(method, route) ==
    IF method \notin http_method_names THEN "http_method_not_allowed"
    ELSE CASE method = "get" /\ route = "list" -> "list"
           [] method = "get" /\ route = "detail" -> "retrieve"
           [] method = "post" /\ route = "list" -> "create"
           [] method = "delete" /\ route = "detail" -> "destroy"
           [] method = "delete" /\ route = "list" -> "delete"
           [] OTHER -> "http_method_not_allowed"

----------------------------------------------------------------------------
\* Actions

\* A stage of the request being handled has run: record it and move on
Ran(stage, next) == /\ log' = Append(log, stage)
                    /\ pc' = next
                    /\ UNCHANGED <<resp, history>>

\* The request ends with a response
Respond(r) == /\ resp' = r
              /\ history' = Append(history, [ser |-> req.ser, payload |-> req.payload, resp |-> r])
              /\ pc' = "idle"

\* A POST arrives at an endpoint: CreateModelMixin.create builds the serializer
Receive ==
    /\ pc = "idle"
    /\ budget > 0
    /\ dispatch("post", "list") = "create"
    /\ \E ser \in endpoints : \E payload \in Payloads(ser, db) :
          req' = Post(ser, payload)
    /\ budget' = budget - 1
    /\ before' = db
    /\ log' = <<>>
    /\ pc' = is_valid_stages[1]
    /\ resp' = NoResponse
    /\ UNCHANGED <<db, endpoints, history, host>>

\* A GET or a DELETE arrives: it reads, or is refused, or (were it allowed) destroys
\* the newest row of a table
OtherMethod ==
    /\ pc = "idle"
    /\ budget > 0
    /\ \E method \in {"get", "delete"}, route \in {"list", "detail"} :
          LET handler == dispatch(method, route)
              answer == Status(method, CASE handler \in {"http_method_not_allowed", "delete"} -> 405
                                         [] handler \in {"list", "retrieve"} -> 200
                                         [] handler = "destroy" -> 204)
          IN /\ resp' = answer
             /\ history' = Append(history, [ser |-> "none", payload |-> EmptyDict, resp |-> answer])
             /\ IF handler = "destroy"
                THEN \E m \in Tables :
                        /\ db[m] # <<>>
                        /\ db' = [db EXCEPT ![m] = SubSeq(@, 1, Len(@) - 1)]
                ELSE db' = db
    /\ budget' = budget - 1
    /\ before' = db
    /\ log' = <<>>
    /\ UNCHANGED <<endpoints, req, pc, host>>

\* self.extract_foreign_keys(self.initial_data)
ExtractForeignKeys ==
    /\ pc = "extract_foreign_keys"
    /\ IF extract_foreign_keys_raises(req.ser, req.initial_data)
       THEN /\ Respond(ServerError)
            /\ log' = Append(log, "extract_foreign_keys")
            /\ UNCHANGED req
       ELSE /\ req' = [req EXCEPT !.initial_data = extract_foreign_keys(req.ser, @)]
            /\ Ran("extract_foreign_keys", After(is_valid_stages, "extract_foreign_keys", "save"))
    /\ UNCHANGED <<db, endpoints, budget, before, host>>

\* self.before_validation(self.initial_data)
BeforeValidation ==
    /\ pc = "before_validation"
    /\ req' = [req EXCEPT !.initial_data = before_validation(req.ser, @, db)]
    /\ db' = before_validation_tables(req.ser, req.initial_data, db)
    /\ Ran("before_validation", After(is_valid_stages, "before_validation", "save"))
    /\ UNCHANGED <<endpoints, budget, before, host>>

\* self.strip_html_content(self.initial_data)
StripHtmlContent ==
    /\ pc = "strip_html_content"
    /\ req' = [req EXCEPT !.initial_data = strip_html_content(req.ser, @)]
    /\ Ran("strip_html_content", After(is_valid_stages, "strip_html_content", "save"))
    /\ UNCHANGED <<db, endpoints, budget, before, host>>

\* self.apply_defaults(self.initial_data)
ApplyDefaults ==
    /\ pc = "apply_defaults"
    /\ req' = [req EXCEPT !.initial_data = apply_defaults(req.ser, @)]
    /\ Ran("apply_defaults", After(is_valid_stages, "apply_defaults", "save"))
    /\ UNCHANGED <<db, endpoints, budget, before, host>>

\* super().is_valid(raise_exception): the declared fields validate initial_data
RunValidation ==
    /\ pc = "run_validation"
    /\ req' = [req EXCEPT !.errors = errors(req.ser, req.initial_data),
                          !.data = IF errors(req.ser, req.initial_data) = {}
                                   THEN validated_data(req.ser, req.initial_data)
                                   ELSE EmptyDict]
    /\ Ran("run_validation", After(is_valid_stages, "run_validation", "save"))
    /\ UNCHANGED <<db, endpoints, budget, before, host>>

\* The view raises the validation error, or calls serializer.save(), which enters the
\* serializer's own create: the overrides either return an instance themselves or go
\* on to TransporterSerializer.create
Save ==
    /\ pc = "save"
    /\ LET base == create_stages[1]
           data == req.data
       IN IF req.errors # {}
          THEN Respond(BadRequest(req.errors)) /\ UNCHANGED <<req, log>>
          ELSE CASE req.ser = "UserSerializer" ->
                      \* Account.objects.get(email=validated_data["email"].lower())
                      LET existing == Matching(db["Account"],
                                               ("email" :> PyChars(Lower(data["email"].k))))
                      IN IF Cardinality(existing) = 1
                         THEN /\ Respond(Created(Instance("Account",
                                                          PyInt(CHOOSE i \in existing : TRUE))))
                              /\ UNCHANGED <<req, log>>
                         ELSE IF existing = {}
                         THEN Ran("TransporterSerializer.create", base) /\ UNCHANGED req
                         ELSE Respond(ServerError) /\ UNCHANGED <<req, log>>
                 [] req.ser = "JournalRoleSerializer" ->
                      IF Get(data, "role_id") = PyNone
                      THEN /\ Respond(Created(Instance("AccountRole", PyNone)))
                           /\ UNCHANGED <<req, log>>
                      ELSE /\ req' = [req EXCEPT !.upsert = TRUE]
                           /\ Ran("TransporterSerializer.create", base)
                 [] req.ser = "JournalArticleRevisionRequestSerializer" ->
                      IF pre_process_raises(req.ser, data)
                      THEN Respond(ServerError) /\ UNCHANGED <<req, log>>
                      ELSE LET processed == pre_process(req.ser, data, db)
                               mapped_type == type_map_get(Get(processed, "type"))
                           IN IF in_type_map(processed["type"]) /\ mapped_type = PyNone
                              THEN /\ Respond(Created(Instance("RevisionRequest", PyNone)))
                                   /\ log' = Append(log, "pre_process")
                                   /\ UNCHANGED req
                              ELSE /\ req' = [req EXCEPT !.data = Put(processed, "type", mapped_type)]
                                   /\ log' = log \o <<"pre_process", "TransporterSerializer.create">>
                                   /\ pc' = base
                                   /\ UNCHANGED <<resp, history>>
                 [] req.ser = "JournalArticleAuthorSerializer" ->
                      Ran("JournalArticleAuthorSerializer.create", "create_author")
                      /\ UNCHANGED req
                 [] req.ser = "JournalArticleFileSerializer" ->
                      Ran("JournalArticleFileSerializer.create", "create_file")
                      /\ UNCHANGED req
                 [] OTHER -> Ran("TransporterSerializer.create", base) /\ UNCHANGED req
    /\ UNCHANGED <<db, endpoints, budget, before, host>>

\* self.apply_parent_id(data)
ApplyParentId ==
    /\ pc = "apply_parent_id"
    /\ req' = [req EXCEPT !.data = apply_parent_id(req.ser, @)]
    /\ Ran("apply_parent_id", After(create_stages, "apply_parent_id", "return"))
    /\ UNCHANGED <<db, endpoints, budget, before, host>>

\* self.pre_process(data)
PreProcess ==
    /\ pc = "pre_process"
    /\ IF pre_process_raises(req.ser, req.data)
       THEN /\ Respond(ServerError)
            /\ log' = Append(log, "pre_process")
            /\ UNCHANGED req
            /\ UNCHANGED db
       ELSE /\ req' = [req EXCEPT !.data = pre_process(req.ser, @, db)]
            /\ db' = pre_process_tables(req.ser, req.data, db)
            /\ Ran("pre_process", After(create_stages, "pre_process", "return"))
    /\ UNCHANGED <<endpoints, budget, before, host>>

\* setting_values = self.extract_setting_values(data)
ExtractSettingValues ==
    /\ pc = "extract_setting_values"
    /\ req' = [req EXCEPT !.settings = extract_setting_values(req.ser, req.data),
                          !.data = [k \in DOMAIN req.data \ setting_values(req.ser) |->
                                       req.data[k]]]
    /\ Ran("extract_setting_values", After(create_stages, "extract_setting_values", "return"))
    /\ UNCHANGED <<db, endpoints, budget, before, host>>

\* instance = self.Meta.model.objects.create(**data), or get_or_create when upserting
Persist ==
    /\ pc = "persist"
    /\ IF persist_raises(req.ser, req.data, req.upsert, db, host)
       THEN /\ Respond(ServerError)
            /\ log' = Append(log, "persist")
            /\ UNCHANGED <<db, req>>
       ELSE /\ db' = persist_tables(req.ser, req.data, req.upsert, db, host)
            /\ req' = [req EXCEPT !.instance =
                          Instance(MetaModel(req.ser),
                                   PyInt(persist_pk(req.ser, req.data, req.upsert, db)))]
            /\ Ran("persist", After(create_stages, "persist", "return"))
    /\ UNCHANGED <<endpoints, budget, before, host>>

\* the setattr loop over the setting values, and instance.save()
ApplySettingValues ==
    /\ pc = "apply_setting_values"
    /\ db' = IF Truthy(req.instance.pk)
             THEN [db EXCEPT ![req.instance.model][req.instance.pk.n] =
                                 apply_setting_values(@, req.settings)]
             ELSE db
    /\ Ran("apply_setting_values", After(create_stages, "apply_setting_values", "return"))
    /\ UNCHANGED <<endpoints, budget, req, before, host>>

\* self.handle_attachments(instance): the files bound to the instance, and its save
HandleAttachments ==
    /\ pc = "handle_attachments"
    /\ IF handle_attachments_raises(req.ser, req.initial_data)
       THEN /\ Respond(ServerError)
            /\ log' = Append(log, "handle_attachments")
            /\ UNCHANGED db
       ELSE /\ db' = IF Len(attachments(req.ser)) # 0 /\ Truthy(req.instance.pk)
                     THEN [db EXCEPT ![req.instance.model][req.instance.pk.n] =
                                         handle_attachments(req.ser, req.initial_data, @)]
                     ELSE db
            /\ Ran("handle_attachments", After(create_stages, "handle_attachments", "return"))
    /\ UNCHANGED <<endpoints, budget, req, before, host>>

\* self.post_process(instance, data)
PostProcess ==
    /\ pc = "post_process"
    /\ IF post_process_raises(req.ser, req.data, db)
       THEN /\ db' = create_raised(db, before)
            /\ Respond(ServerError)
            /\ log' = Append(log, "post_process")
       ELSE /\ db' = post_process(req.ser, req.instance, req.data, req.initial_data, db)
            /\ Ran("post_process", After(create_stages, "post_process", "return"))
    /\ UNCHANGED <<endpoints, budget, req, before, host>>

\* JournalArticleAuthorSerializer.create: the frozen author, then post_process; the
\* rows written before an exception stay
CreateAuthor ==
    /\ pc = "create_author"
    /\ LET created == Insert(db, "FrozenAuthor",
                             Put(req.data, "article_id", fixture["article__id"]))
           record == Instance("FrozenAuthor", PyInt(Len(created["FrozenAuthor"])))
       IN IF author_order_raises(req.data, created, host)
          THEN /\ db' = author_linked(req.data, created)
               /\ Respond(ServerError)
               /\ UNCHANGED req
          ELSE /\ db' = author_post_process(req.data, req.initial_data, created)
               /\ req' = [req EXCEPT !.instance = record]
               /\ Respond(Created(record))
    /\ log' = Append(log, "post_process")
    /\ UNCHANGED <<endpoints, budget, before, host>>

\* JournalArticleFileSerializer.create: the file saved or overwritten, then post_process
CreateFile ==
    /\ pc = "create_file"
    /\ LET data == Pop(req.data, "file")
       IN IF file_create_raises(data, req.initial_data, db)
          THEN /\ Respond(ServerError)
               /\ log' = Append(log, "pre_process")
               /\ UNCHANGED <<db, req>>
          ELSE LET record == file_create_pk(req.initial_data, db)
               IN /\ db' = file_post_process(record, data,
                                             file_create(data, req.initial_data, db))
                  /\ req' = [req EXCEPT !.data = data, !.instance = Instance("File", PyInt(record))]
                  /\ Respond(Created(Instance("File", PyInt(record))))
                  /\ log' = log \o <<"pre_process", "post_process">>
    /\ UNCHANGED <<endpoints, budget, before, host>>

\* The import_journal command hands a journal's JSON to JournalHandler.import_single
ImportSingle ==
    /\ pc = "idle"
    /\ budget > 0
    /\ \E pt \in {"testj", "j2"} :
          LET data == ("path" :> PyStr(pt)) @@ ("title" :> PyStr("Test Journal"))
          IN /\ db' = import_single(data, db)
             /\ history' = Append(history, [ser |-> "JournalHandler", payload |-> data,
                                            resp |-> Status("command", 0)])
             /\ req' = [NoRequest EXCEPT !.ser = "JournalHandler", !.payload = data]
    /\ resp' = Status("command", 0)
    /\ budget' = budget - 1
    /\ before' = db
    /\ log' = <<>>
    /\ UNCHANGED <<endpoints, pc, host>>

\* return instance: the view answers 201 with the serialized instance
Return ==
    /\ pc = "return"
    /\ Respond(Created(req.instance))
    /\ UNCHANGED <<db, endpoints, budget, req, log, before, host>>

----------------------------------------------------------------------------
\* Specifications

EmptyTables == [m \in Tables |-> <<>>]

InitWith(eps, n, tables) ==
    /\ db = tables
    /\ endpoints = eps
    /\ budget = n
    /\ req = NoRequest
    /\ pc = "idle"
    /\ log = <<>>
    /\ before = tables
    /\ resp = NoResponse
    /\ history = <<>>
    /\ host \in {[lowercase_email |-> b] : b \in BOOLEAN}

\* A migration of users, roles and revision requests
Init ==
    InitWith({"UserSerializer", "JournalRoleSerializer",
              "JournalArticleRevisionRequestSerializer"}, MaxRequests, EmptyTables)

\* A migration of review assignments
InitReview ==
    InitWith({"JournalArticleRoundAssignmentSerializer"}, MaxReviewRequests, EmptyTables)

\* The editor and the two files that exist when the assignments of a round are imported,
\* as in ReviewAssignmentSerializerTest.test_supp_files
RoundTables ==
    [EmptyTables EXCEPT !["Account"] = <<("email" :> PyChars(<<"e", "d", "@", "x">>))>>,
                        !["File"] = <<("label" :> PyStr("Test Review File")),
                                      ("label" :> PyStr("Test Supplementary File"))>>]

\* A migration of the review assignments of a round with files
InitRound ==
    InitWith({"JournalArticleRoundAssignmentSerializer"}, MaxRoundRequests, RoundTables)

\* The article of the route, submitted and not yet assigned, and the account of the
\* editor or author, as in the setUp of the test cases of the three serializers
PartsTables ==
    [EmptyTables EXCEPT !["Account"] = <<("email" :> PyChars(<<"e", "d", "@", "x">>))>>,
                        !["Article"] = <<[stage |-> PyStr("Unassigned"),
                                          date_submitted |-> PyDate(1)]>>]

\* A migration of the editors, authors and files of an article, into a host that does
\* or does not declare the pairs (article, editor) and (article, author) unique
InitParts ==
    /\ db = PartsTables
    /\ endpoints = {"JournalArticleEditorSerializer", "JournalArticleAuthorSerializer",
                    "JournalArticleFileSerializer"}
    /\ budget = MaxPartRequests
    /\ req = NoRequest
    /\ pc = "idle"
    /\ log = <<>>
    /\ before = PartsTables
    /\ resp = NoResponse
    /\ history = <<>>
    /\ host \in {[lowercase_email |-> TRUE, unique_together |-> b] : b \in BOOLEAN}

Next ==
    \/ Receive
    \/ OtherMethod
    \/ ExtractForeignKeys
    \/ BeforeValidation
    \/ StripHtmlContent
    \/ ApplyDefaults
    \/ RunValidation
    \/ Save
    \/ ApplyParentId
    \/ PreProcess
    \/ ExtractSettingValues
    \/ Persist
    \/ ApplySettingValues
    \/ HandleAttachments
    \/ PostProcess
    \/ Return

Spec == Init /\ [][Next]_vars

SpecReview == InitReview /\ [][Next]_vars

SpecRound == InitRound /\ [][Next]_vars

NextParts == Next \/ CreateAuthor \/ CreateFile

\* A migration of journals, through the journals endpoint and through the import_journal
\* command, into a host that does or does not declare code and domain unique
InitJournal ==
    /\ db = EmptyTables
    /\ endpoints = {"JournalSerializer"}
    /\ budget = MaxJournalRequests
    /\ req = NoRequest
    /\ pc = "idle"
    /\ log = <<>>
    /\ before = EmptyTables
    /\ resp = NoResponse
    /\ history = <<>>
    /\ host \in {[lowercase_email |-> TRUE, unique_together |-> b] : b \in BOOLEAN}

NextJournal == Next \/ ImportSingle

SpecJournal == InitJournal /\ [][NextJournal]_vars

SpecParts == InitParts /\ [][NextParts]_vars

\* A migration of the editors, rounds, authors, files and revision requests of an
\* article that an earlier import left in one of its stages, into a journal that has or
\* lacks the review element of the workflow
InitStages ==
    /\ \E stage \in {"Unsubmitted", "Unassigned", "Under Review", "Published"},
          elements \in {<<>>, <<[journal_id |-> fixture["journal__id"],
                                 element_name |-> PyStr("review")]>>} :
          db = [PartsTables EXCEPT !["Article"] = <<[journal_id |-> fixture["journal__id"],
                                                     stage |-> PyStr(stage),
                                                     date_submitted |-> PyDate(1)]>>,
                                   !["WorkflowElement"] = elements]
    /\ endpoints = {"JournalArticleEditorSerializer", "JournalArticleRoundSerializer",
                    "JournalArticleAuthorSerializer", "JournalArticleFileSerializer",
                    "JournalArticleRevisionRequestSerializer"}
    /\ budget = MaxStageRequests
    /\ req = NoRequest
    /\ pc = "idle"
    /\ log = <<>>
    /\ before = db
    /\ resp = NoResponse
    /\ history = <<>>
    /\ host \in {[lowercase_email |-> TRUE, unique_together |-> b] : b \in BOOLEAN}

SpecStages == InitStages /\ [][NextParts]_vars

\* The payload of an article, of a review form or of an element of a review form on its
\* way through is_valid and, in create, up to pre_process
InitArticle ==
    /\ db = EmptyTables
    /\ endpoints = {"JournalArticleSerializer", "JournalReviewFormSerializer",
                    "JournalReviewFormElementSerializer"}
    /\ budget = 0
    /\ \E ser \in endpoints : \E payload \in Payloads(ser, EmptyTables) :
          req = Post(ser, payload)
    /\ pc = is_valid_stages[1]
    /\ log = <<>>
    /\ before = EmptyTables
    /\ resp = NoResponse
    /\ history = <<>>
    /\ host \in {[lowercase_email |-> b] : b \in BOOLEAN}

NextArticle ==
    \/ ExtractForeignKeys
    \/ BeforeValidation
    \/ StripHtmlContent
    \/ ApplyDefaults
    \/ RunValidation
    \/ Save
    \/ ApplyParentId
    \/ PreProcess

SpecArticle == InitArticle /\ [][NextArticle]_vars

----------------------------------------------------------------------------
\* Claims about the import of users, roles and revision requests

\* the answered requests that imported a user successfully
UserImports ==
    {i \in 1..Len(history) :
        history[i].ser = "UserSerializer" /\ history[i].resp.status = 201}

\* the accounts whose address is e, whatever the letter case
AccountsFor(e) ==
    {i \in 1..Len(db["Account"]) : Lower(db["Account"][i]["email"].k) = Lower(e)}

\* C1: two user imports with the same email return the same Account, and exactly one
\* Account exists for that email afterwards.
C1_UserImportIdempotent ==
    \A i \in UserImports :
        /\ \A j \in UserImports :
              history[i].payload["email"] = history[j].payload["email"]
                  => history[i].resp.instance = history[j].resp.instance
        /\ Cardinality(AccountsFor(history[i].payload["email"].k)) = 1

\* C2: when structural validation fails, the tables are what they were when the request
\* arrived, the Role table that before_validation writes included.
C2_InvalidPersistsNothing ==
    (pc = "idle" /\ resp.status = 400) => db = before

\* the stages of is_valid among those logged
ValidationLog == SelectSeq(log, LAMBDA st : st \in
    {"extract_foreign_keys", "before_validation", "strip_html_content", "apply_defaults",
     "run_validation"})

IsPrefix(a, b) == Len(a) <= Len(b) /\ a = SubSeq(b, 1, Len(a))

\* C3: is_valid runs foreign-key extraction, the before_validation hook, HTML stripping,
\* default application and structural validation in that order, each after the previous one.
C3_IsValidOrder ==
    /\ IsPrefix(ValidationLog,
                <<"extract_foreign_keys", "before_validation", "strip_html_content",
                  "apply_defaults", "run_validation">>)
    /\ (pc \in {"save", "idle"} /\ resp.status \in {0, 201, 400} /\ log # <<>>)
          => Len(ValidationLog) = 5

C3_Witness == pc = "save" /\ Len(ValidationLog) = 5 /\ req.errors = {}

\* what TransporterSerializer.create has run: the log after its entry
BaseCreateLog ==
    IF \E i \in 1..Len(log) : log[i] = "TransporterSerializer.create"
    THEN SubSeq(log, 1 + (CHOOSE i \in 1..Len(log) : log[i] = "TransporterSerializer.create"),
                Len(log))
    ELSE <<>>

\* C4: TransporterSerializer.create runs apply_parent_id, pre_process, the popping of setting
\* values, the persisting of the entity, the setting values, the attachments and post_process
\* in that order; post_process is last and follows the persisting, which follows pre_process.
C4_CreateOrder ==
    /\ IsPrefix(BaseCreateLog,
                <<"apply_parent_id", "pre_process", "extract_setting_values", "persist",
                  "apply_setting_values", "handle_attachments", "post_process">>)
    /\ (pc = "return") => (Len(BaseCreateLog) = 7 /\ Truthy(req.instance.pk))
    /\ (pc \notin {"idle", "save"} /\ Truthy(req.instance.pk))
          => \E i, j \in 1..Len(log) : i < j /\ log[i] = "pre_process" /\ log[j] = "persist"

C4_Witness == pc = "return" /\ BaseCreateLog[7] = "post_process" /\ Truthy(req.instance.pk)

\* rows are never removed or rewritten by a step
RowsKept == \A m \in Tables : IsPrefix(db[m], db'[m])

\* C7: a DELETE is answered 405 and leaves the tables as they were, and no request removes
\* an existing record.
C7_DeleteRefused ==
    /\ [](resp.method = "delete" => (resp.status = 405 /\ db = before))
    /\ [][RowsKept]_vars

C7_Witness ==
    resp.method = "delete" /\ db["Account"] # <<>> /\ db["AccountRole"] # <<>>

\* the record a response's source_record_key names exists
Persisted(instance) ==
    /\ instance.model \in Tables
    /\ Truthy(instance.pk)
    /\ instance.pk.n \in 1..Len(db[instance.model])

ReturnsUnsaved(ser, payload) ==
    \/ ser = "JournalRoleSerializer" /\ ~Truthy(role_map_get(Get(payload, "role")))
    \/ ser = "JournalArticleRevisionRequestSerializer"
          /\ in_type_map(Get(payload, "decision"))
          /\ type_map_get(Get(payload, "decision")) = PyNone

RoleImportAnswered ==
    /\ pc = "idle"
    /\ req.ser = "JournalRoleSerializer"
    /\ resp.method = "post"
    /\ "user" \in DOMAIN req.payload

\* C15: a role import whose role name is not in role_map is refused with 400 and creates no
\* AccountRole; one whose role name maps to None succeeds and creates no AccountRole either.
C15_UnmappedRoleRefused ==
    RoleImportAnswered =>
        /\ ~in_role_map(Get(req.payload, "role")) =>
              (resp.status = 400 /\ db["AccountRole"] = before["AccountRole"])
        /\ (in_role_map(Get(req.payload, "role")) /\ ~Truthy(role_map_get(req.payload["role"]))) =>
              (resp.status = 201 /\ db["AccountRole"] = before["AccountRole"])

\* the last request was a revision request with decision "resubmit", a date and an editor
ResubmitAnswered ==
    /\ pc = "idle"
    /\ req.ser = "JournalArticleRevisionRequestSerializer"
    /\ resp.method = "post"
    /\ Get(req.payload, "decision") = PyStr("resubmit")
    /\ {"date", "editor"} \subseteq DOMAIN req.payload

\* C16: a revision request with decision "resubmit" (and a date and an editor, under an
\* article) creates a persisted RevisionRequest of type "major_revisions", linked to the
\* article of the route and to the editor.
C16_ResubmitIsMajorRevisions ==
    ResubmitAnswered =>
        /\ resp.status = 201
        /\ Persisted(resp.instance)
        /\ LET row == db["RevisionRequest"][resp.instance.pk.n]
           IN /\ Get(row, "type") = PyStr("major_revisions")
              /\ Get(row, "article_id") = fixture["article__id"]
              /\ Get(row, "editor_id") =
                    PyInt(IntOf(LastSegment(req.payload["editor"].d["target_record_key"].k)))

----------------------------------------------------------------------------
\* Claims about the import of review assignments

AssignmentCreated ==
    /\ pc = "idle"
    /\ resp.status = 201
    /\ req.ser = "JournalArticleRoundAssignmentSerializer"

\* the row of the assignment the last response returned
CreatedRow == db["ReviewAssignment"][resp.instance.pk.n]

\* the datetime a payload's string stands for
AsDate(v) == PyDate(parse_datetime(v.s))

\* the first of the payload's date_due, date_completed and date_assigned that has a value
FirstAvailableDate(p) ==
    IF Truthy(Get(p, "date_due")) THEN p["date_due"]
    ELSE IF Truthy(Get(p, "date_completed")) THEN p["date_completed"]
    ELSE Get(p, "date_assigned")

C10_CompletedWithoutDecisionWithdrawn ==
    (/\ AssignmentCreated
     /\ Truthy(Get(req.payload, "date_completed"))
     /\ ~Truthy(Get(req.payload, "recommendation")))
        => Get(CreatedRow, "decision") = PyStr("withdrawn")

C10_Witness ==
    /\ AssignmentCreated
    /\ Truthy(Get(req.payload, "date_completed"))
    /\ Get(req.payload, "recommendation") = PyStr("")
    /\ CreatedRow["decision"] = PyStr("withdrawn")

----------------------------------------------------------------------------
\* Claims about the files and the rating of review assignments

\* the answered requests that imported a review assignment successfully
AssignmentImports ==
    {i \in 1..Len(history) :
        /\ history[i].ser = "JournalArticleRoundAssignmentSerializer"
        /\ history[i].resp.status = 201}

\* the files a payload names as supplementary files
SuppFilesOf(payload) ==
    IF "supp_files" \in DOMAIN payload
    THEN {IntOf(LastSegment(payload["supp_files"].l[i].d["target_record_key"].k)) :
             i \in 1..Len(payload["supp_files"].l)}
    ELSE IF "supplementary_file_ids" \in DOMAIN payload
    THEN {payload["supplementary_file_ids"].l[i].n :
             i \in 1..Len(payload["supplementary_file_ids"].l)}
    ELSE {}

\* how often a file is among the review files of the round of the route
TimesInRound(file) ==
    Cardinality(Matching(db["ReviewRound_review_files"],
                         [reviewround_id |-> fixture["review_round__id"],
                          file_id |-> PyInt(file)]))

\* C11: once an assignment that names supplementary files is imported, each of those files
\* that exists is among the review files of the round, and exactly once, however often the
\* import is repeated.
C11_SuppFilesAttachedOnce ==
    \A i \in AssignmentImports :
        \A f \in SuppFilesOf(history[i].payload) \cap (1..Len(db["File"])) :
            TimesInRound(f) = 1

\* the files a payload names as review files of the round
ReviewFilesOf(payload) ==
    IF "review_files" \in DOMAIN payload
    THEN {IntOf(parse_target_record_key(payload["review_files"].l[i].d["target_record_key"]).k) :
             i \in 1..Len(payload["review_files"].l)}
    ELSE {}

\* C28: after any sequence of assignment imports, every existing file that an imported
\* assignment names among its review_files is among the review files of the round,
\* whichever of them were there before, and none is there more than once.
C28_ReviewFilesAllAttachedOnce ==
    \A i \in AssignmentImports :
        \A f \in ReviewFilesOf(history[i].payload) \cap (1..Len(db["File"])) :
            TimesInRound(f) = 1

\* C12: an assignment imported with a quality q and an editor has one ReviewerRating, whose
\* rating is q / 10 and within 0..10, and get_quality of the assignment gives q back.
C12_QualityScaledToRating ==
    \A i \in AssignmentImports :
        ({"quality", "editor"} \subseteq DOMAIN history[i].payload) =>
            LET pk == history[i].resp.instance.pk
                q == history[i].payload["quality"].n
                ratings == Matching(db["ReviewerRating"], [assignment_id |-> pk])
            IN /\ Cardinality(ratings) = 1
               /\ \A r \in ratings :
                     /\ db["ReviewerRating"][r]["rating"].n * 10 = q
                     /\ db["ReviewerRating"][r]["rating"].n \in 0..10
               /\ get_quality(db, pk) = PyInt(q)

----------------------------------------------------------------------------
\* Claims about what pre_process makes of an article payload

\* pre_process has just run on an article
ArticlePreProcessed ==
    /\ req.ser = "JournalArticleSerializer"
    /\ log # <<>>
    /\ log[Len(log)] = "pre_process"

\* the later lifecycle dates a payload populates
LaterDates(p) ==
    {a \in {"date_submitted", "date_accepted", "date_declined", "date_updated"} :
        Truthy(Get(p, a))}

\* C13: for a payload without date_started and with at least one of date_submitted,
\* date_accepted, date_declined, date_updated, the date_started that pre_process derives is
\* no later than the earliest of those dates.
C13_DerivedStartNotAfterLaterDates ==
    (ArticlePreProcessed /\ ~Truthy(Get(req.payload, "date_started"))) =>
        \A a \in LaterDates(req.payload) :
            DateLeq(req.data["date_started"], AsDate(req.payload[a]))

\* the twelve workflow stages stage_map maps to
WorkflowStages ==
    {"Unsubmitted", "Unassigned", "Assigned", "Under Review", "Under Revision", "Rejected",
     "Accepted", "Editor Copyediting", "Author Copyediting", "Typesetting", "Proofing",
     "Published"}

\* the stage the populated dates of a payload stand for
StageOfDates(p) ==
    IF Truthy(Get(p, "date_submitted")) THEN "Unassigned"
    ELSE IF Truthy(Get(p, "date_declined")) THEN "Rejected"
    ELSE IF Truthy(Get(p, "date_accepted")) THEN "Accepted"
    ELSE IF Truthy(Get(p, "date_published")) THEN "Published"
    ELSE "Unsubmitted"

\* C14 as stated: after pre_process the stage is one of the twelve workflow stages; a status
\* of stage_map gives its mapped stage, an unrecognized or missing status the stage derived
\* from the dates (date_submitted, date_declined, date_accepted, date_published, in that
\* order), unsubmitted when none is populated.
C14_StageMappedOrDerived ==
    ArticlePreProcessed =>
        /\ req.data["stage"].t = "str"
        /\ req.data["stage"].s \in WorkflowStages
        /\ IF Truthy(stage_map_get(Get(req.payload, "status")))
           THEN req.data["stage"] = stage_map_get(req.payload["status"])
           ELSE req.data["stage"].s = StageOfDates(req.payload)

\* C14, amended: a status that is absent from the payload is taken as "draft" and gives
\* unsubmitted whatever the dates; a null, blank or unrecognized status gives the stage
\* derived from the dates.
C14_StageMappedOrDerivedUnlessAbsent ==
    ArticlePreProcessed =>
        /\ req.data["stage"].t = "str"
        /\ req.data["stage"].s \in WorkflowStages
        /\ IF "status" \notin DOMAIN req.payload
           THEN req.data["stage"].s = "Unsubmitted"
           ELSE IF Truthy(stage_map_get(req.payload["status"]))
           THEN req.data["stage"] = stage_map_get(req.payload["status"])
           ELSE req.data["stage"].s = StageOfDates(req.payload)

C14_Witness ==
    /\ ArticlePreProcessed
    /\ Get(req.payload, "status") = PyStr("unheard_of")
    /\ ~Truthy(Get(req.payload, "date_submitted"))
    /\ Truthy(Get(req.payload, "date_declined"))
    /\ Truthy(Get(req.payload, "date_accepted"))
    /\ req.data["stage"].s = "Rejected"

\* the dates of the timeline that a dict populates, in the order of the timeline
Timeline(d) ==
    SelectSeq(<<"date_started", "date_submitted", "date_accepted">>,
              LAMBDA a : Truthy(Get(d, a)))

\* C25: for a payload whose date_started, date_submitted and date_accepted, as far as it
\* supplies them, are in chronological order, after pre_process
\* date_started <= date_submitted <= date_accepted holds of every one of them that is set.
C25_TimelineInOrder ==
    (/\ ArticlePreProcessed
     /\ \A i, j \in 1..Len(Timeline(req.payload)) :
           i <= j => DateLeq(AsDate(req.payload[Timeline(req.payload)[i]]),
                             AsDate(req.payload[Timeline(req.payload)[j]])))
    => \A i, j \in 1..Len(Timeline(req.data)) :
          i <= j => DateLeq(req.data[Timeline(req.data)[i]], req.data[Timeline(req.data)[j]])

----------------------------------------------------------------------------
\* Claims about what the import makes of a review form and of its elements

\* pre_process has just run on the serializer's data, without raising
PreProcessed(ser) ==
    /\ req.ser = ser
    /\ log # <<>>
    /\ log[Len(log)] = "pre_process"
    /\ resp.status # 500

\* C23: a review form whose payload carries "active" and no "deleted" gets the reverse of
\* active as its deleted flag: active true gives deleted false, active false gives deleted
\* true.
C23_ActiveReversedIntoDeleted ==
    (/\ PreProcessed("JournalReviewFormSerializer")
     /\ "active" \in DOMAIN req.payload
     /\ "deleted" \notin DOMAIN req.payload)
    => req.data["deleted"] = PyBool(~req.payload["active"].b)

\* where a question is cut when the cut is at its last sentence terminator within the
\* first max_length characters, or at max_length when there is none
LastTerminatorCut(question) ==
    LET terminators == {i \in 1..name_max_length : question[i] \in {".", "?", "!"}}
    IN IF terminators # {}
       THEN CHOOSE i \in terminators : \A j \in terminators : j <= i
       ELSE name_max_length

\* C24: a question longer than the maximum length of a name is split at the last sentence
\* terminator within its first max_length characters, or at max_length when there is none:
\* the stored name is the part before the split and is no longer than max_length, and
\* the rest of the question is put in front of the help_text.
C24_QuestionSplitAtLastTerminator ==
    (/\ PreProcessed("JournalReviewFormElementSerializer")
     /\ Len(req.payload["question"].k) > name_max_length)
    => LET question == req.payload["question"].k
           cut == LastTerminatorCut(question)
       IN /\ Len(req.data["name"].k) <= name_max_length
          /\ req.data["name"].k = SubSeq(question, 1, cut)
          /\ req.data["help_text"].k =
                SubSeq(question, cut + 1, Len(question))
                \o GetOr(req.payload, "help_text", PyChars(<<>>)).k

----------------------------------------------------------------------------
\* Claims about the import of the editors, authors and files of an article

\* the answered requests that imported an editor assignment successfully
EditorImports ==
    {i \in 1..Len(history) : /\ history[i].ser = "JournalArticleEditorSerializer"
                             /\ history[i].resp.status = 201}

\* the last request was answered, and it repeated request i of the history
Repeats(i) ==
    /\ pc = "idle"
    /\ i < Len(history)
    /\ history[Len(history)].ser = history[i].ser

\* C17: an editor assignment imported again for the same editor and article is answered
\* with the record of the first import, whose editor_type, notified and assigned are
\* left as the first import set them.
C17_DuplicateEditorAssignmentKept ==
    \A i \in EditorImports :
        (Repeats(i) /\ Get(history[Len(history)].payload, "editor") = Get(history[i].payload, "editor"))
        => /\ resp.status = 201
           /\ resp.instance = history[i].resp.instance
           /\ db["EditorAssignment"][history[i].resp.instance.pk.n]
                = before["EditorAssignment"][history[i].resp.instance.pk.n]

\* the answered requests that imported an author linked to the user with the given pk
LinkedAuthorImports(user) ==
    {i \in 1..Len(history) : /\ history[i].ser = "JournalArticleAuthorSerializer"
                             /\ Get(history[i].payload, "user") = Ref("Account", user)}

\* the order rows of the article of the route for an author
AuthorOrders(user) ==
    Matching(db["ArticleAuthorOrder"],
             [article_id |-> fixture["article__id"], author_id |-> PyInt(user)])

\* C18: however many times the same linked author is imported for an article, there is
\* exactly one ArticleAuthorOrder row for the pair, and its order is the sequence that
\* the first import supplied.
C18_OneAuthorOrderPerAuthor ==
    \A user \in 1..Len(db["Account"]) :
        (pc = "idle" /\ LinkedAuthorImports(user) # {})
        => LET first == CHOOSE i \in LinkedAuthorImports(user) :
                            \A j \in LinkedAuthorImports(user) : i <= j
           IN /\ Cardinality(AuthorOrders(user)) = 1
              /\ "sequence" \in DOMAIN history[first].payload =>
                    \A o \in AuthorOrders(user) :
                        Get(db["ArticleAuthorOrder"][o], "order") = history[first].payload["sequence"]

\* the last request imported a file flagged as supplementary, and is answered with it
SupplementaryFileImported ==
    /\ pc = "idle"
    /\ req.ser = "JournalArticleFileSerializer"
    /\ Get(req.payload, "is_supplementary_file") = PyBool(TRUE)
    /\ resp.status = 201

\* the files of a collection of the article of the route
Collection(relation) ==
    {db[relation][i]["record_id"] :
        i \in Matching(db[relation], [article_id |-> fixture["article__id"]])}

\* C19: a file imported with is_supplementary_file = true is in the supplementary_files
\* of the article and not in its manuscript_files.
C19_SupplementaryFileCollected ==
    SupplementaryFileImported =>
        /\ resp.instance.pk \in Collection("Article_supplementary_files")
        /\ resp.instance.pk \notin Collection("Article_manuscript_files")

\* the last request imported a file, and is answered with it
FileImported ==
    /\ pc = "idle"
    /\ req.ser = "JournalArticleFileSerializer"
    /\ resp.status = 201

\* C30: a file imported with parent_target_record_key goes into the history of the file
\* it names and the manuscript_files of the article stay as they were; manuscript_files
\* change only on the import of a new file that is not supplementary.
C30_ParentFileOnlyInHistory ==
    FileImported =>
        /\ "parent_target_record_key" \in DOMAIN req.payload =>
              /\ Len(db["FileHistory"]) = Len(before["FileHistory"]) + 1
              /\ db["FileHistory"][Len(db["FileHistory"])]["file_id"] = resp.instance.pk
              /\ db["File"] = before["File"]
              /\ db["Article_manuscript_files"] = before["Article_manuscript_files"]
        /\ db["Article_manuscript_files"] # before["Article_manuscript_files"] =>
              /\ "parent_target_record_key" \notin DOMAIN req.payload
              /\ Get(req.payload, "is_supplementary_file") # PyBool(TRUE)

----------------------------------------------------------------------------
\* Claims about the stage of an article and about a create that fails

\* the stage of the article of the route, in given tables
StageIn(tables) == Get(tables["Article"][fixture["article__id"].n], "stage")

\* the last request went through TransporterSerializer.create, persisted its entity and
\* ended with an exception in post_process
PostProcessFailed ==
    /\ pc = "idle"
    /\ resp.status = 500
    /\ log # <<>>
    /\ log[Len(log)] = "post_process"
    /\ Truthy(req.instance.pk)

\* C22: when post_process fails in TransporterSerializer.create, the entity created
\* before it stays persisted as it was created, nothing is rolled back, and the records
\* that post_process had yet to write do not exist.
C22_EntityStaysWhenPostProcessFails ==
    PostProcessFailed =>
        /\ Len(db[req.instance.model]) = Len(before[req.instance.model]) + 1
        /\ req.instance.pk.n = Len(db[req.instance.model])
        /\ db[req.instance.model][req.instance.pk.n] = req.data
        /\ db["WorkflowLog"] = before["WorkflowLog"]

C22_Witness ==
    /\ PostProcessFailed
    /\ req.ser = "JournalArticleRoundSerializer"
    /\ Len(db["ReviewRound"]) = 1
    /\ db["WorkflowLog"] = <<>>

\* C26: no import changes the stage of a published article, and the only changes of
\* stage that an import makes are from unassigned to assigned on the import of an editor
\* assignment and from a new-article stage to under review on the import of round 1.
C26_PublishedIsTerminal ==
    [][StageIn(db') # StageIn(db) =>
          /\ StageIn(db) # PyStr("Published")
          /\ \/ /\ req.ser = "JournalArticleEditorSerializer"
                /\ StageIn(db) = PyStr("Unassigned")
                /\ StageIn(db') = PyStr("Assigned")
             \/ /\ req.ser = "JournalArticleRoundSerializer"
                /\ Get(req.payload, "round") = PyInt(1)
                /\ StageIn(db).s \in NEW_ARTICLE_STAGES
                /\ StageIn(db') = PyStr("Under Review")]_vars

C26_Witness ==
    /\ pc = "idle"
    /\ req.ser = "JournalArticleEditorSerializer"
    /\ resp.status = 201
    /\ StageIn(before) = PyStr("Published")
    /\ StageIn(db) = PyStr("Published")
    /\ Len(db["EditorAssignment"]) = 1

\* C29: the import of round 1 for an article in a new-article stage leaves the persisted
\* article in the under-review stage.
C29_RoundOnePersistsUnderReview ==
    (/\ pc = "idle"
     /\ req.ser = "JournalArticleRoundSerializer"
     /\ resp.status = 201
     /\ Get(req.payload, "round") = PyInt(1)
     /\ StageIn(before).s \in NEW_ARTICLE_STAGES)
    => StageIn(db) = PyStr("Under Review")

----------------------------------------------------------------------------
\* Claims about the import of journals

\* the last request went to the journals endpoint and is answered with a created journal
EndpointCreatedJournal ==
    /\ pc = "idle"
    /\ req.ser = "JournalSerializer"
    /\ resp.status = 201

\* the last request was the import_journal command, and it created a journal
CommandCreatedJournal ==
    /\ pc = "idle"
    /\ req.ser = "JournalHandler"
    /\ Len(db["Journal"]) = Len(before["Journal"]) + 1

\* the journal that the last request created
CreatedJournal ==
    IF req.ser = "JournalSerializer" THEN resp.instance.pk ELSE PyInt(Len(db["Journal"]))

\* the URLs that are derived from a journal's path
DerivedUrls(path) ==
    {PyStr(base \o path.s) : base \in {"https://www.example.com/", "https://escholarship.org/uc/"}}

\* the default issue type and the default custom field of a journal exist
HasIssueType(journal) ==
    Matching(db["IssueType"], [journal_id |-> journal, code |-> PyStr("issue")]) # {}
HasAcknowledgements(journal) ==
    Matching(db["Field"], [journal_id |-> journal, name |-> PyStr("Acknowledgements")]) # {}

----------------------------------------------------------------------------
\* apply_defaults on its own: any JSON value under a key with a default and under a key
\* without one

\* the values a key of a payload may hold
AnyValue ==
    {PyNone, PyStr(""), PyStr("UC"), PyBool(FALSE), PyBool(TRUE), PyInt(0), PyInt(7),
     PyList(<<>>), PyList(<<PyStr("UC")>>), PyDict(EmptyDict)}

InitDefaults ==
    /\ db = EmptyTables
    /\ endpoints = {"UserSerializer"}
    /\ budget = 0
    /\ \E a \in Optional("affiliation", AnyValue), f \in Optional("first_name", AnyValue) :
          req = Post("UserSerializer", a @@ f)
    /\ pc = "call apply_defaults"
    /\ log = <<>>
    /\ before = EmptyTables
    /\ resp = NoResponse
    /\ history = <<>>
    /\ host \in {[lowercase_email |-> b] : b \in BOOLEAN}

\* self.apply_defaults(self.initial_data)
CallApplyDefaults ==
    /\ pc = "call apply_defaults"
    /\ req' = [req EXCEPT !.initial_data = apply_defaults(req.ser, @)]
    /\ pc' = "apply_defaults returned"
    /\ UNCHANGED <<db, endpoints, budget, log, before, resp, history, host>>

SpecDefaults == InitDefaults /\ [][CallApplyDefaults]_vars

\* the keys of Meta.defaults and the default of each
DefaultKeys(ser) == {defaults(ser)[i][1] : i \in 1..Len(defaults(ser))}
DefaultOf(ser, key) == defaults(ser)[CHOOSE i \in 1..Len(defaults(ser)) : defaults(ser)[i][1] = key][2]

\* C5: apply_defaults sets a key of the default spec to its default exactly when the key is
\* missing, null or the empty string, leaves every other value of it unchanged, and never
\* touches a key that is not in the default spec.
C5_DefaultsOnlyForMissingNullBlank ==
    pc = "apply_defaults returned" =>
        \A key \in {"affiliation", "first_name"} :
            IF /\ key \in DefaultKeys(req.ser)
               /\ (key \notin DOMAIN req.payload \/ req.payload[key] \in {PyNone, PyStr("")})
            THEN Get(req.initial_data, key) = DefaultOf(req.ser, key)
            ELSE /\ (key \in DOMAIN req.initial_data) = (key \in DOMAIN req.payload)
                 /\ key \in DOMAIN req.payload => req.initial_data[key] = req.payload[key]

----------------------------------------------------------------------------
\* Record keys on their own: the key a response carries, sent back as a reference

InitKeys ==
    /\ db = EmptyTables
    /\ endpoints = {"JournalArticleRoundAssignmentSerializer"}
    /\ budget = 0
    /\ req = NoRequest
    /\ pc = "call get_source_record_key"
    /\ log = <<>>
    /\ before = EmptyTables
    /\ \E model \in {"Account", "AccountRole", "RevisionRequest", "ReviewAssignment", "File"},
          pk \in 1..MaxPk :
          resp = [NoResponse EXCEPT !.instance = Instance(model, PyInt(pk))]
    /\ history = <<>>
    /\ host \in {[lowercase_email |-> b] : b \in BOOLEAN}

\* the response to the create of a persisted entity carries its source_record_key
CallGetSourceRecordKey ==
    /\ pc = "call get_source_record_key"
    /\ resp' = Created(resp.instance)
    /\ pc' = "call extract_foreign_keys"
    /\ UNCHANGED <<db, endpoints, budget, req, log, before, history, host>>

\* a later payload names the entity by that key, alone or in a list, or carries a
\* reference that is no reference or none at all, and is_valid extracts the foreign keys
CallExtractForeignKeys ==
    /\ pc = "call extract_foreign_keys"
    /\ LET ref == PyDict(("target_record_key" :> resp.source_record_key))
       IN \E payload \in
                {("reviewer" :> v) :
                    v \in {ref, PyNone, PyDict(EmptyDict), PyDict(("id" :> resp.instance.pk)),
                           PyDict(("target_record_key" :> resp.instance.pk)),
                           resp.source_record_key, resp.instance.pk, PyList(<<>>)}}
                \cup {("review_files" :> PyList(l)) :
                         l \in {<<ref, ref>>, <<resp.source_record_key, ref>>,
                                <<PyNone, resp.instance.pk>>}}
                \cup {EmptyDict} :
             IF extract_foreign_keys_raises("JournalArticleRoundAssignmentSerializer", payload)
             THEN /\ req' = Post("JournalArticleRoundAssignmentSerializer", payload)
                  /\ pc' = "extract_foreign_keys raised"
             ELSE /\ req' = [Post("JournalArticleRoundAssignmentSerializer", payload)
                                EXCEPT !.initial_data = extract_foreign_keys(
                                           "JournalArticleRoundAssignmentSerializer", payload)]
                  /\ pc' = "extract_foreign_keys returned"
    /\ UNCHANGED <<db, endpoints, budget, log, before, resp, history, host>>

NextKeys == CallGetSourceRecordKey \/ CallExtractForeignKeys

SpecKeys == InitKeys /\ [][NextKeys]_vars

\* the string names the primary key: it is its decimal form and converts back to it
NamesPk(v, pk) == v.t = "chars" /\ v.k = Digits(pk.n) /\ IntOf(v.k) = pk.n

\* the reference that sends the key of the response back
SentBack == PyDict(("target_record_key" :> resp.source_record_key))

\* C6: the source record key of a persisted entity, sent back as target_record_key, resolves
\* to the entity's primary key, as a single reference and as an element of a list.
C6_RecordKeyRoundTrip ==
    pc = "extract_foreign_keys returned" =>
        /\ Get(req.payload, "reviewer") = SentBack =>
              NamesPk(Get(req.initial_data, "reviewer_id"), resp.instance.pk)
        /\ Get(req.payload, "review_files") = PyList(<<SentBack, SentBack>>) =>
              /\ Get(req.initial_data, "round_review_file_ids").t = "list"
              /\ Len(req.initial_data["round_review_file_ids"].l) = Len(req.payload["review_files"].l)
              /\ \A i \in 1..Len(req.initial_data["round_review_file_ids"].l) :
                    NamesPk(req.initial_data["round_review_file_ids"].l[i], resp.instance.pk)

C6_Witness ==
    /\ pc = "extract_foreign_keys returned"
    /\ Get(req.payload, "review_files") = PyList(<<SentBack, SentBack>>)
    /\ resp.instance.pk.n >= 10
    /\ req.initial_data["round_review_file_ids"].l[2].k = Digits(resp.instance.pk.n)

\* a reference that is no reference: a dict without a target_record_key, or a value that
\* is neither a dict nor a list
Malformed(v) ==
    \/ v.t = "dict" /\ "target_record_key" \notin DOMAIN v.d
    \/ v.t \notin {"dict", "list"}

\* C27: the extraction of the foreign keys never raises on a malformed or absent
\* reference: an absent lookup key leaves the foreign key absent, a dict without a
\* target_record_key or a value that is neither a dict nor a list gives None or nothing,
\* and an element of a list that is no object gives None in its place.
C27_ExtractionNeverRaises ==
    /\ pc # "extract_foreign_keys raised"
    /\ pc = "extract_foreign_keys returned" =>
          /\ "reviewer" \notin DOMAIN req.payload => "reviewer_id" \notin DOMAIN req.initial_data
          /\ ("reviewer" \in DOMAIN req.payload /\ Malformed(req.payload["reviewer"]))
             => Get(req.initial_data, "reviewer_id") = PyNone
          /\ "review_files" \in DOMAIN req.payload =>
                \A i \in 1..Len(req.payload["review_files"].l) :
                    req.payload["review_files"].l[i].t # "dict"
                    => req.initial_data["round_review_file_ids"].l[i] = PyNone

----------------------------------------------------------------------------
\* The ancestor constraints of a nested route on their own

\* NestedViewSetMixin.get_parents_query_dict: a kwarg name is the pair of its prefix and
\* the rest, and the kwargs that start with parent_lookup_ are kept under the rest
get_parents_query_dict(kwargs) ==
    [q \in {k[2] : k \in {n \in DOMAIN kwargs : n[1] = "parent_lookup_"}} |->
        kwargs[<<"parent_lookup_", q>>]]

\* NestedViewSetMixin.filter_queryset_by_parents_lookups on a view, which is the model of
\* its queryset and its parent_keys when it has the attribute: what the call returns or
\* raises, and the query it filtered by. queryset.filter raises FieldError
\* for a lookup that the model cannot resolve and ValueError for a value that is no
\* number; with both in one query the lookup met first decides.
filter_queryset_by_parents_lookups(view, kwargs) ==
    LET parents_query_dict == get_parents_query_dict(kwargs)
        filtered_query == IF view.has_parent_keys
                          THEN [key \in view.parent_keys |-> parents_query_dict[key]]
                          ELSE parents_query_dict
        resolves(key) == \/ key = "article_id" /\ \/ view.model = "File"
                                                  \/ has_relation(view.model, "article")
                         \/ key # "article_id" /\ has_relation(view.model, fk_record_name(key))
        field_errors == {key \in DOMAIN filtered_query : ~resolves(key)}
        value_errors == {key \in DOMAIN filtered_query :
                            resolves(key) /\ ~IsDecimal(filtered_query[key].k)}
    IN IF DOMAIN parents_query_dict = {}
       THEN {[returns |-> "queryset", status |-> 200, query |-> EmptyDict]}
       ELSE IF view.has_parent_keys /\ ~(view.parent_keys \subseteq DOMAIN parents_query_dict)
       THEN {[returns |-> "KeyError", status |-> 500, query |-> EmptyDict]}
       ELSE {[returns |-> "FieldError", status |-> 500, query |-> filtered_query] :
                key \in field_errors}
            \cup {[returns |-> "Http404", status |-> 404, query |-> filtered_query] :
                     key \in value_errors}
            \cup IF field_errors \cup value_errors = {}
                 THEN {[returns |-> "queryset.filter", status |-> 200, query |-> filtered_query]}
                 ELSE {}

\* A GET of a collection: a view that takes get_queryset from the mixin, and the kwargs
\* captured from the URL
InitLookups ==
    /\ db = EmptyTables
    /\ endpoints = {}
    /\ budget = 0
    /\ \E model \in {"Journal", "AccountRole", "Article", "RevisionRequest", "File"},
          parent_keys \in {{}, {"article_id"}},
          names \in SUBSET {<<"parent_lookup_", "journal__id">>,
                            <<"parent_lookup_", "article__id">>, <<"", "pk">>} :
          \E kwargs \in [names -> {PyChars(<<"1">>), PyChars(<<"a">>)}] :
             req = [view |-> [model |-> model, has_parent_keys |-> parent_keys # {},
                              parent_keys |-> parent_keys],
                    kwargs |-> kwargs, query |-> EmptyDict]
    /\ pc = "call get_queryset"
    /\ log = <<>>
    /\ before = EmptyTables
    /\ resp = NoResponse
    /\ history = <<>>
    /\ host \in {[lowercase_email |-> b] : b \in BOOLEAN}

\* NestedViewSetMixin.get_queryset
CallGetQueryset ==
    /\ pc = "call get_queryset"
    /\ \E outcome \in filter_queryset_by_parents_lookups(req.view, req.kwargs) :
          /\ req' = [req EXCEPT !.query = outcome.query]
          /\ log' = <<outcome.returns>>
          /\ resp' = Status("get", outcome.status)
    /\ pc' = "get_queryset returned"
    /\ UNCHANGED <<db, endpoints, budget, before, history, host>>

SpecLookups == InitLookups /\ [][CallGetQueryset]_vars

====
